---- MODULE Spec2Model ----
(***************************************************************************)
(* Model of the Crucible ray tracer: the intersection core (Interval,      *)
(* Aabb, Triangle, HitList, BVHWrapper), the concurrent render pipeline    *)
(* (Camera::render, Camera::thread_setup, start_thread_cpu), the scene     *)
(* and its camera as their callers drive them (Scene::render_scene, the    *)
(* camera setters) and the IdVendor.                                       *)
(*                                                                         *)
(* f64 values are modelled by exact rationals <<n, d>> with d > 0, by      *)
(* <<1, 0>> for +inf, <<-1, 0>> for -inf and <<0, 0>> for NaN.  Points and *)
(* vectors have integer coordinates.                                       *)
(*                                                                         *)
(* An operator that uses an intermediate value several times binds it      *)
(* with "x \in {e}", as a let-binding of the code does, so that e is       *)
(* evaluated once: The({F(x) : x \in {e}}) is F(e).                        *)
(***************************************************************************)
EXTENDS Integers, Sequences, FiniteSets, TLC

\* ------------------------------------------------------------------------
\* Bounds of the model
\* ------------------------------------------------------------------------
\* number of pixel columns of the rendered image
ImageWidth == 2
\* number of pixel rows of the rendered image
ImageHeight == 2
\* largest number of primitives of a scene of the intersection test bench
MaxObjs == 3
\* largest thread count of a camera
MaxThreads == 2

\* ------------------------------------------------------------------------
\* f64 arithmetic on exact rationals
\* ------------------------------------------------------------------------
\* the element of a one-element set
The(S) == CHOOSE x \in S : TRUE

Abs(n) == IF n < 0 THEN -n ELSE n

Sign(n) == IF n < 0 THEN -1 ELSE IF n > 0 THEN 1 ELSE 0

RECURSIVE Gcd(_, _)
Gcd(a, b) == The({IF y = 0 THEN x ELSE Gcd(y, x % y) : x \in {a}, y \in {b}})

PosInf == <<1, 0>>
NegInf == <<-1, 0>>
NaN == <<0, 0>>

\* the f64 value n / d, in lowest terms
Rat(n, d) ==
    IF d = 0 THEN <<Sign(n), 0>>
    ELSE The({<<(Sign(d) * n) \div g, Abs(d) \div g>> :
                g \in {Gcd(Abs(n), Abs(d))}})

FromInt(n) == <<n, 1>>

IsNaN(a) == a[1] = 0 /\ a[2] = 0

\* a < b on f64 (false when one side is NaN)
RLt(a, b) ==
    \E x \in {a}, y \in {b} :
        IF IsNaN(x) \/ IsNaN(y) THEN FALSE
        ELSE IF x[2] = 0 /\ y[2] = 0 THEN x[1] < y[1]
        ELSE x[1] * y[2] < y[1] * x[2]

\* a <= b on f64 (false when one side is NaN)
RLe(a, b) ==
    \E x \in {a}, y \in {b} : ~IsNaN(x) /\ ~IsNaN(y) /\ ~RLt(y, x)

\* a - b on f64
RSub(a, b) ==
    The({IF IsNaN(x) \/ IsNaN(y) THEN NaN
         ELSE IF x[2] = 0 THEN (IF y[2] = 0 /\ x[1] = y[1] THEN NaN ELSE x)
         ELSE IF y[2] = 0 THEN <<-y[1], 0>>
         ELSE Rat(x[1] * y[2] - y[1] * x[2], x[2] * y[2]) :
           x \in {a}, y \in {b}})

\* a * b on f64
RMul(a, b) ==
    The({IF IsNaN(x) \/ IsNaN(y) THEN NaN
         ELSE IF x[2] = 0 \/ y[2] = 0 THEN <<Sign(x[1]) * Sign(y[1]), 0>>
         ELSE Rat(x[1] * y[1], x[2] * y[2]) :
           x \in {a}, y \in {b}})

\* ------------------------------------------------------------------------
\* Vec3 / Point3 with integer coordinates
\* ------------------------------------------------------------------------
VSub(p, q) == <<p[1] - q[1], p[2] - q[2], p[3] - q[3]>>

VAdd(p, q) == <<p[1] + q[1], p[2] + q[2], p[3] + q[3]>>

VScale(k, p) == <<k * p[1], k * p[2], k * p[3]>>

Dot(p, q) == p[1] * q[1] + p[2] * q[2] + p[3] * q[3]

Cross(p, q) == <<p[2] * q[3] - p[3] * q[2],
                 p[3] * q[1] - p[1] * q[3],
                 p[1] * q[2] - p[2] * q[1]>>

Min2(a, b) == IF a < b THEN a ELSE b

Max2(a, b) == IF a > b THEN a ELSE b

\* ------------------------------------------------------------------------
\* Interval
\* ------------------------------------------------------------------------
Interval(lo, hi) == [min |-> lo, max |-> hi]

IntervalEMPTY == Interval(PosInf, NegInf)

tight_enclose(a, b) ==
    Interval(IF RLe(a.min, b.min) THEN a.min ELSE b.min,
             IF RLe(b.max, a.max) THEN a.max ELSE b.max)

size(i) == RSub(i.max, i.min)

surrounds(i, x) == RLt(i.min, x) /\ RLt(x, i.max)

\* ------------------------------------------------------------------------
\* Aabb
\* ------------------------------------------------------------------------
Aabb(x, y, z) == [x |-> x, y |-> y, z |-> z]

AabbDefault == Aabb(IntervalEMPTY, IntervalEMPTY, IntervalEMPTY)

new_from_boxes(box0, box1) ==
    The({Aabb(tight_enclose(b0.x, b1.x),
              tight_enclose(b0.y, b1.y),
              tight_enclose(b0.z, b1.z)) : b0 \in {box0}, b1 \in {box1}})

axis_interval(box, n) ==
    IF n = "X" THEN box.x ELSE IF n = "Y" THEN box.y ELSE box.z

\* a longest_axis that compares with >=
longest_axis_ge(box) ==
    IF RLe(size(box.y), size(box.x))
    THEN (IF RLe(size(box.z), size(box.x)) THEN "X" ELSE "Z")
    ELSE IF RLe(size(box.z), size(box.y)) THEN "Y"
    ELSE "Z"

longest_axis(box) ==
    IF RLt(size(box.y), size(box.x))
    THEN (IF RLt(size(box.z), size(box.x)) THEN "X" ELSE "Z")
    ELSE IF RLt(size(box.z), size(box.y)) THEN "Y"
    ELSE "Z"

\* a Ray: origin, direction and time
Ray(origin, direction, tm) ==
    [origin |-> origin, direction |-> direction, tm |-> tm]

AxisIndex(n) == IF n = "X" THEN 1 ELSE IF n = "Y" THEN 2 ELSE 3

\* one iteration of the loop of Aabb::hit: the interval after narrowing
\* ray_t on axis n
AabbNarrow(box, r, ray_t, n) ==
    LET ax == axis_interval(box, n)
        o == FromInt(r.origin[AxisIndex(n)])
        adinv == Rat(1, r.direction[AxisIndex(n)])
    IN  The({IF RLt(t0, t1)
             THEN Interval(IF RLt(ray_t.min, t0) THEN t0 ELSE ray_t.min,
                           IF RLt(t1, ray_t.max) THEN t1 ELSE ray_t.max)
             ELSE Interval(IF RLt(ray_t.min, t1) THEN t1 ELSE ray_t.min,
                           IF RLt(t0, ray_t.max) THEN t0 ELSE ray_t.max) :
               t0 \in {RMul(RSub(ax.min, o), adinv)},
               t1 \in {RMul(RSub(ax.max, o), adinv)}})

AxisOrder == <<"X", "Y", "Z">>

\* an Aabb::hit that narrows on all three axes before it tests the interval
RECURSIVE AabbHitFrom_all_axes(_, _, _, _)
AabbHitFrom_all_axes(box, r, ray_t, k) ==
    IF k > 3 THEN [ok |-> ~RLe(ray_t.max, ray_t.min), axes |-> 3]
    ELSE AabbHitFrom_all_axes(box, r, AabbNarrow(box, r, ray_t, AxisOrder[k]),
                              k + 1)

\* an Aabb::hit that rejects only when max < min
RECURSIVE AabbHitFrom_closed(_, _, _, _)
AabbHitFrom_closed(box, r, ray_t, k) ==
    IF k > 3 THEN [ok |-> TRUE, axes |-> 3]
    ELSE The({IF RLt(nt.max, nt.min)
              THEN [ok |-> FALSE, axes |-> k]
              ELSE AabbHitFrom_closed(box, r, nt, k + 1) :
                nt \in {AabbNarrow(box, r, ray_t, AxisOrder[k])}})

\* Aabb::hit: [ok, axes] where axes is the number of axes processed
RECURSIVE AabbHitFrom(_, _, _, _)
AabbHitFrom(box, r, ray_t, k) ==
    IF k > 3 THEN [ok |-> TRUE, axes |-> 3]
    ELSE The({IF RLe(nt.max, nt.min)
              THEN [ok |-> FALSE, axes |-> k]
              ELSE AabbHitFrom(box, r, nt, k + 1) :
                nt \in {AabbNarrow(box, r, ray_t, AxisOrder[k])}})

Aabb_hit(box, r, ray_t) == AabbHitFrom(box, r, ray_t, 1).ok

\* ------------------------------------------------------------------------
\* TransformTimeline: the position of a point at time tm.  A timeline is
\* [start, vel, transforms]: the start position, one linear translate
\* keyframe, and the transforms the scene animator pushed onto it.
\* ------------------------------------------------------------------------
Timeline(start, vel) == [start |-> start, vel |-> vel, transforms |-> <<>>]

combine_and_compute(tl, tm) == VAdd(tl.start, VScale(tm, tl.vel))

\* ------------------------------------------------------------------------
\* HitRecord: hit is FALSE for None
\* ------------------------------------------------------------------------
NoHit == [hit |-> FALSE, t |-> NaN, mat |-> 0]

HitRecord(t, mat) == [hit |-> TRUE, t |-> t, mat |-> mat]

\* ------------------------------------------------------------------------
\* Triangle
\* ------------------------------------------------------------------------
max_points(a, b, c) ==
    <<Max2(a[1], Max2(b[1], c[1])), Max2(a[2], Max2(b[2], c[2])),
      Max2(a[3], Max2(b[3], c[3]))>>

min_points(a, b, c) ==
    <<Min2(a[1], Min2(b[1], c[1])), Min2(a[2], Min2(b[2], c[2])),
      Min2(a[3], Min2(b[3], c[3]))>>

\* the box Triangle::new and Triangle::update_bb compute for three vertices
TriangleBox(a, b, c) ==
    The({Aabb(Interval(FromInt(lo[1]), FromInt(hi[1])),
              Interval(FromInt(lo[2]), FromInt(hi[2])),
              Interval(FromInt(lo[3]), FromInt(hi[3]))) :
           hi \in {max_points(a, b, c)}, lo \in {min_points(a, b, c)}})

\* Triangle::new followed by the timeline keyframe vel and the material mat
Triangle_new(a, b, c, vel, mat) ==
    [kind |-> "Triangle", id |-> 0, hide |-> FALSE,
     a_timeline |-> Timeline(a, vel), b_timeline |-> Timeline(b, vel),
     c_timeline |-> Timeline(c, vel), mat |-> mat,
     bbox |-> TriangleBox(a, b, c)]

Triangle_update_bb(tri, time) ==
    The({[tri EXCEPT !.bbox = TriangleBox(a, b, c)] :
           a \in {combine_and_compute(tri.a_timeline, time)},
           b \in {combine_and_compute(tri.b_timeline, time)},
           c \in {combine_and_compute(tri.c_timeline, time)}})

\* Triangle::hit after the hide test, on the vertices a, b, c at the ray's
\* time: u, v and t are the quotients un / det, vn / det and tn / det,
\* compared without dividing
MollerTrumbore(a, b, c, mat, r, ray_t) ==
    The({The({The({
        IF det = 0 THEN NoHit
        ELSE IF Sign(det) * un < 0 \/ Sign(det) * un > Abs(det) THEN NoHit
        ELSE IF Sign(det) * vn < 0 \/ Sign(det) * (un + vn) > Abs(det) THEN NoHit
        ELSE IF surrounds(ray_t, Rat(tn, det)) THEN HitRecord(Rat(tn, det), mat)
        ELSE NoHit :
            det \in {Dot(e1, ray_cross_e2)},
            un \in {Dot(s, ray_cross_e2)},
            vn \in {Dot(r.direction, s_cross_e1)},
            tn \in {Dot(e2, s_cross_e1)}}) :
          ray_cross_e2 \in {Cross(r.direction, e2)},
          s_cross_e1 \in {Cross(s, e1)}}) :
        e1 \in {VSub(b, a)}, e2 \in {VSub(c, a)}, s \in {VSub(r.origin, a)}})

\* Triangle::hit
Triangle_hit(tri, r, ray_t) ==
    IF tri.hide THEN NoHit
    ELSE The({MollerTrumbore(a, b, c, tri.mat, r, ray_t) :
                a \in {combine_and_compute(tri.a_timeline, r.tm)},
                b \in {combine_and_compute(tri.b_timeline, r.tm)},
                c \in {combine_and_compute(tri.c_timeline, r.tm)}})

\* ------------------------------------------------------------------------
\* HitList and BVHWrapper values
\* ------------------------------------------------------------------------
HitList_new(objs) == [kind |-> "HitList", objs |-> objs, bbox |-> AabbDefault]

HitList_add(l, obj) ==
    [l EXCEPT !.objs = Append(l.objs, obj),
              !.bbox = new_from_boxes(l.bbox, obj.bbox)]

\* Scene::add_element for each object of a sequence: a HitList built by add
RECURSIVE ListOf(_)
ListOf(objs) ==
    IF objs = <<>> THEN HitList_new(<<>>)
    ELSE HitList_add(ListOf(SubSeq(objs, 1, Len(objs) - 1)), objs[Len(objs)])

\* Hittables::update_bb
RECURSIVE Hittables_update_bb(_, _)
Hittables_update_bb(h, time) ==
    IF h.kind = "Triangle" THEN Triangle_update_bb(h, time)
    ELSE IF h.kind = "HitList" THEN
        LET objs == [i \in 1..Len(h.objs) |-> Hittables_update_bb(h.objs[i], time)]
            RECURSIVE Union(_)
            Union(k) == IF k = 0 THEN AabbDefault
                        ELSE new_from_boxes(Union(k - 1), objs[k].bbox)
        IN  [h EXCEPT !.objs = objs, !.bbox = Union(Len(objs))]
    ELSE h

\* BVHWrapper::box_compare: TRUE when a sorts strictly before b
box_compare(a, b, axis) ==
    RLt(axis_interval(a.bbox, axis).min, axis_interval(b.bbox, axis).min)

\* the stable sort of sort_by with box_compare, by insertion
RECURSIVE InsertSorted(_, _, _)
InsertSorted(sorted, obj, axis) ==
    IF sorted = <<>> THEN <<obj>>
    ELSE IF box_compare(obj, sorted[Len(sorted)], axis)
         THEN Append(InsertSorted(SubSeq(sorted, 1, Len(sorted) - 1), obj, axis),
                     sorted[Len(sorted)])
         ELSE Append(sorted, obj)

RECURSIVE sort_by(_, _)
sort_by(objs, axis) ==
    IF objs = <<>> THEN <<>>
    ELSE InsertSorted(sort_by(SubSeq(objs, 1, Len(objs) - 1), axis),
                      objs[Len(objs)], axis)

\* the union of the boxes of a range of objects
RECURSIVE RangeBox(_)
RangeBox(objs) ==
    IF objs = <<>> THEN AabbDefault
    ELSE new_from_boxes(RangeBox(SubSeq(objs, 1, Len(objs) - 1)),
                        objs[Len(objs)].bbox)

\* BVHWrapper::help_generate on the range objects[start..end], given as a
\* sequence of at least one object
RECURSIVE help_generate(_)
help_generate(objs) ==
    LET bbox == RangeBox(objs)
        axis == longest_axis(bbox)
        object_span == Len(objs)
        sub_list == sort_by(objs, axis)
        mid == object_span \div 2
    IN  IF object_span = 1
        THEN [kind |-> "BVHWrapper", left |-> objs[1], right |-> objs[1],
              bbox |-> bbox]
        ELSE IF object_span = 2
        THEN [kind |-> "BVHWrapper", left |-> objs[1], right |-> objs[2],
              bbox |-> bbox]
        ELSE [kind |-> "BVHWrapper",
              left |-> help_generate(SubSeq(sub_list, 1, mid)),
              right |-> help_generate(SubSeq(sub_list, mid + 1, object_span)),
              bbox |-> bbox]

new_from_vec(objs) ==
    LET b == help_generate(objs)
    IN  [b EXCEPT !.bbox = new_from_boxes(b.left.bbox, b.right.bbox)]

\* the objects new_wrapper keeps: hidden spheres and triangles are left out
RECURSIVE visible_objects(_)
visible_objects(objs) ==
    IF objs = <<>> THEN <<>>
    ELSE LET rest == visible_objects(SubSeq(objs, 1, Len(objs) - 1))
             o == objs[Len(objs)]
         IN  IF o.kind = "Triangle" /\ o.hide THEN rest ELSE Append(rest, o)

new_wrapper(list) ==
    LET vis == visible_objects(list.objs)
    IN  IF vis = <<>> THEN HitList_new(<<>>) ELSE new_from_vec(vis)

\* ------------------------------------------------------------------------
\* hit.  Hittables_hit gives [rec, self, visits, scans]: the Option<HitRecord>
\* returned, the object after the call (hit takes &mut self), and for the
\* properties of the traversal the record of every BVHWrapper::hit that
\* passed its box test (visits) and of every HitList::hit (scans).
\* ------------------------------------------------------------------------
\* HitList::hit: the interval given to the next child
list_child_interval(ray_t, closest) == Interval(ray_t.min, closest)

\* a scan that never narrows its upper bound
list_closest_stale(closest, child_rec) == closest

\* HitList::hit: closest after a child returned child_rec
list_closest(closest, child_rec) ==
    IF child_rec.hit THEN child_rec.t ELSE closest

\* HitList::hit: rec after a child returned child_rec
list_rec(rec, child_rec) == IF child_rec.hit THEN child_rec ELSE rec

\* a right query that keeps the caller's interval
bvh_right_interval_unclamped(ray_t, hit_left) ==
    Interval(ray_t.min, ray_t.max)

\* BVHWrapper::hit: the interval given to the right subtree
bvh_right_interval(ray_t, hit_left) ==
    Interval(ray_t.min, IF hit_left.hit THEN hit_left.t ELSE ray_t.max)

\* BVHWrapper::hit: the value returned
bvh_result(hit_left, hit_right) ==
    IF hit_right.hit THEN hit_right ELSE hit_left

\* HitList::hit: the state of the scan after a child answered c to the
\* interval new_interval; p is the state before
list_step(p, k, new_interval, c) ==
    [rec |-> list_rec(p.rec, c.rec),
     closest |-> list_closest(p.closest, c.rec),
     objs |-> [p.objs EXCEPT ![k] = c.self],
     visits |-> p.visits \o c.visits,
     scans |-> p.scans \o c.scans,
     steps |-> Append(p.steps, [interval |-> new_interval,
                                before |-> p.rec, child |-> c.rec])]

\* BVHWrapper::hit after the box test: hl and hr are the answers of the left
\* and right subtrees
bvh_node_result(h, ray_t, hl, hr) ==
    [rec |-> bvh_result(hl.rec, hr.rec),
     self |-> [h EXCEPT !.left = hl.self, !.right = hr.self],
     visits |-> <<[ray_t |-> ray_t, hit_left |-> hl.rec,
                   right_t |-> bvh_right_interval(ray_t, hl.rec),
                   hit_right |-> hr.rec,
                   rec |-> bvh_result(hl.rec, hr.rec)]>>
                 \o hl.visits \o hr.visits,
     scans |-> hl.scans \o hr.scans]

RECURSIVE Hittables_hit(_, _, _)
Hittables_hit(h, r, ray_t) ==
    IF h.kind = "Triangle"
    THEN [rec |-> Triangle_hit(h, r, ray_t), self |-> h,
          visits |-> <<>>, scans |-> <<>>]
    ELSE IF h.kind = "HitList"
    THEN LET RECURSIVE Scan(_)
             Scan(k) ==
                 IF k = 0
                 THEN [rec |-> NoHit, closest |-> ray_t.max, objs |-> h.objs,
                       visits |-> <<>>, scans |-> <<>>, steps |-> <<>>]
                 ELSE The({The({The({list_step(p, k, child_t, c) :
                                       c \in {Hittables_hit(h.objs[k], r, child_t)}}) :
                                  child_t \in {list_child_interval(ray_t, p.closest)}}) :
                             p \in {Scan(k - 1)}})
         IN  The({[rec |-> f.rec, self |-> [h EXCEPT !.objs = f.objs],
                   visits |-> f.visits,
                   scans |-> Append(f.scans,
                               [ray_t |-> ray_t, objs |-> h.objs,
                                steps |-> f.steps, rec |-> f.rec])] :
                    f \in {Scan(Len(h.objs))}})
    ELSE IF ~Aabb_hit(h.bbox, r, ray_t)
    THEN [rec |-> NoHit, self |-> h, visits |-> <<>>, scans |-> <<>>]
    ELSE The({The({The({The({bvh_node_result(h, ray_t, hl, hr) :
                               hr \in {Hittables_hit(right, r, right_t)}}) :
                          right_t \in {bvh_right_interval(ray_t, hl.rec)}}) :
                     hl \in {Hittables_hit(left, r, ray_t)}}) :
                left \in {Hittables_update_bb(h.left, r.tm)},
                right \in {Hittables_update_bb(h.right, r.tm)}})

\* ------------------------------------------------------------------------
\* State
\* ------------------------------------------------------------------------
VARIABLES
    \* intersection test bench: one scene, one ray, one query interval
    hpc,          \* "off", "start", "listed", "done"
    hlist,        \* the HitList of the scene
    hray,         \* the ray
    hray_t,       \* the query interval
    list_out,     \* result of HitList::hit on the list
    bvh_out,      \* result of hit on new_wrapper(list)
    \* Camera::render, the coordinator
    cpc,          \* phase of the render, "Off" when no render runs
    thread_count, \* Camera.thread_count
    deterministic,\* TRUE when the shutter length of the camera is 0
    world,        \* the &Hittables passed to render
    skybox,       \* the &Skybox passed to render
    sender,       \* TRUE while the Sender of the work channel is alive
    chan,         \* the ThreadInfo items queued in the work channel
    sent,         \* number of items sent so far
    joined,       \* number of worker threads joined so far
    written,      \* number of pixels removed from the result map so far
    results,      \* Camera.results, the DashMap (i, j) -> Color
    output,       \* the file: [header, lines]
    \* start_thread_cpu, the workers
    lock,         \* the worker holding the receiver mutex, 0 when it is free
    wpc,          \* position of each worker
    winfo,        \* the ThreadInfo each worker holds in its loop body
    wworld,       \* each worker's clone of the world
    progress,     \* each worker's progress counter
    \* history of the render
    received,     \* how many times each pixel's item was received
    inserts,      \* the colors inserted under each key, in order
    out_of_order, \* TRUE once a pixel was completed before an earlier one
    closed_queued,\* TRUE once the sender was dropped with items queued
    stale,        \* the entries render found in the map: [found, kept]
    \* Scene and its camera, as their callers drive them
    spc,          \* "Off", "Built", "Movie", "Returned", "Panicked"
    scene_cam,    \* Scene.scene_cam: the fields of the Camera
    duration,     \* Scene.duration: None or Some(seconds)
    frame_rate,   \* Scene.frame_rate
    frames,       \* render_movie: the frame count of the loop
    frame,        \* render_movie: the loop variable
    renders,      \* one record per call of Camera::render, in order
    call,         \* the last call made on the scene or its camera
    \* IdVendor
    vpc,          \* "Off" or "On"
    id_vendor,    \* [id_map, id_to_vend]
    vended,       \* the <<alias, id>> pairs vend_id returned, in order
    \* Lambertian::scatter
    mpc,          \* "Off", "Hit", "Scattered"
    lam,          \* the Lambertian: [tex, scatter_prob]
    mrec,         \* the HitRecord and the time of the incoming ray
    attenuation,  \* the Color behind "attenuation: &mut Color"
    scattered,    \* what scatter returned: None or Some(ray)
    \* a HitList driven through new, add, clear and update_bb
    lpc,          \* "Off" or "On"
    lst,          \* the HitList
    \* the elements of a Scene and its id vendor
    epc,          \* "Off", "On", "Panicked"
    elements,     \* Scene.elements
    evendor,      \* Scene.id_vendor
    hidden,       \* the aliases hidden and not shown since
    ecall,        \* the last call on the scene: [op, alias, ret]
    eops          \* number of calls made on the scene

benchVars == <<hpc, hlist, hray, hray_t, list_out, bvh_out>>

coordVars == <<cpc, thread_count, deterministic, world, skybox, sender, chan,
               sent, joined, written, results, output>>

workerVars == <<lock, wpc, winfo, wworld, progress>>

histVars == <<received, inserts, out_of_order, closed_queued, stale>>

renderVars == <<coordVars, workerVars, histVars>>

sceneVars == <<spc, scene_cam, duration, frame_rate, frames, frame, renders, call>>

vendorVars == <<vpc, id_vendor, vended>>

materialVars == <<mpc, lam, mrec, attenuation, scattered>>

listVars == <<lpc, lst>>

elemVars == <<epc, elements, evendor, hidden, ecall, eops>>

labVars == <<materialVars, listVars, elemVars>>

apiVars == <<sceneVars, vendorVars, labVars>>

vars == <<benchVars, renderVars, apiVars>>

\* ------------------------------------------------------------------------
\* The render: image, scene and camera
\* ------------------------------------------------------------------------
\* the times a ray can carry
Times == {0, 1}

NoVel == <<0, 0, 0>>

Workers == 1..MaxThreads

ThreadCounts == 0..MaxThreads

Pixels == (0..(ImageWidth - 1)) \X (0..(ImageHeight - 1))

PixelCount == ImageWidth * ImageHeight

\* the ThreadInfo (i, j) that the dispatch loops "for j in 0..ih, for i in
\* 0..iw" send in their k-th iteration, k from 0
dispatch_item(k) == <<k % ImageWidth, k \div ImageWidth>>

\* the position of pixel (i, j) in raster order
raster_index(p) == p[2] * ImageWidth + p[1]

\* a read-back of the pixels column by column
drain_key_column_major(k) == <<k \div ImageHeight, k % ImageHeight>>

\* the key (i, j) that the write loops "for j in 0..ih, for i in 0..iw"
\* remove in their k-th iteration, k from 0
drain_key(k) == <<k % ImageWidth, k \div ImageWidth>>

\* Scene.elements of the rendered scene: one triangle in front of the
\* pixels (1, 0) and (1, 1) each, and one in front of pixel (0, 0) that its
\* timeline moves out of view at time 1
RenderElements ==
    ListOf(<<
        Triangle_new(<<3, 0, 0>>, <<0, 3, 0>>, <<0, 0, -3>>, NoVel, 1),
        Triangle_new(<<-3, 0, 0>>, <<0, 3, 0>>, <<0, 0, -3>>, <<0, -10, 0>>, 2),
        Triangle_new(<<3, 0, 0>>, <<0, -3, 0>>, <<0, 0, -3>>, NoVel, 3)>>)

\* the color of the sky
SkyColor == 0

\* Camera::get_pixel_pos minus the camera center: the direction of the ray
\* through pixel (i, j), for a camera at the origin looking along -z
pixel_direction(i, j) == <<2 * i - 1, 1 - 2 * j, -1>>

\* a time sample drawn in the shutter interval whatever the shutter length
time_sample_unseeded(det, current_time, s) == current_time + s

\* cast_ray: the time of the sample ray, current_time + s with s drawn in
\* 0..=shutter_length; det is TRUE when the shutter length is 0, the only
\* value drawn is then 0
time_sample(det, current_time, s) ==
    IF det THEN current_time ELSE current_time + s

\* ray_color with one bounce: the material of the nearest hit or the sky;
\* gives [color, world], world being the &mut Hittables after the call
ray_color(r, sb, w) ==
    The({The({[color |-> IF h.rec.hit THEN h.rec.mat ELSE SkyColor,
               world |-> h.self] :
                h \in {Hittables_hit(w, r, ray_t)}}) :
           ray_t \in {Interval(Rat(1, 1000), PosInf)}})

\* Camera::cast_ray with one sample per pixel
cast_ray(i, j, tm, sb, w) ==
    The({ray_color(r, sb, w) :
           r \in {Ray(<<0, 0, 0>>, pixel_direction(i, j), tm)}})

\* DashMap::insert
insert(map, key, color) ==
    [p \in DOMAIN map \cup {key} |-> IF p = key THEN color ELSE map[p]]

\* a read that leaves the entry in the map
remove_keeps(map, key) == map

\* DashMap::remove
remove(map, key) == [p \in DOMAIN map \ {key} |-> map[p]]

\* a receiver that reports the disconnection before the queue is empty
disconnected_early(queue, sender_alive) == ~sender_alive

\* mpsc::Receiver::recv returns Err: no item queued and the sender dropped
disconnected(queue, sender_alive) == queue = <<>> /\ ~sender_alive

\* a world shared by all the workers
set_world_shared(worlds, w, new) == [v \in DOMAIN worlds |-> new]

\* the world behind worker w's Arc<RwLock<Hittables>> after a cast
set_world(worlds, w, new) == [worlds EXCEPT ![w] = new]

\* the value of list_out and bvh_out before the query
NoResult == [rec |-> NoHit, self |-> HitList_new(<<>>),
             visits |-> <<>>, scans |-> <<>>]

NoInfo == <<0, 0>>

NoWorld == HitList_new(<<>>)

\* no scene is driven
SceneOff ==
    /\ spc = "Off"
    /\ scene_cam = <<>>
    /\ duration = [some |-> FALSE, v |-> NaN]
    /\ frame_rate = 0
    /\ frames = 0
    /\ frame = 0
    /\ renders = <<>>
    /\ call = [op |-> "none", arg |-> 0, ret |-> "()"]

\* no id vendor is driven
VendorOff ==
    /\ vpc = "Off"
    /\ id_vendor = <<>>
    /\ vended = <<>>

\* no material is exercised
MaterialOff ==
    /\ mpc = "Off"
    /\ lam = <<>>
    /\ mrec = <<>>
    /\ attenuation = <<>>
    /\ scattered = <<>>

\* no HitList is driven
ListOff ==
    /\ lpc = "Off"
    /\ lst = <<>>

\* no scene elements are driven
ElemOff ==
    /\ epc = "Off"
    /\ elements = <<>>
    /\ evendor = <<>>
    /\ hidden = {}
    /\ ecall = <<>>
    /\ eops = 0

LabOff == MaterialOff /\ ListOff /\ ElemOff

\* the entries of the result map that were in it when render was called
\* (found), and those of them that no insert of this render replaced (kept)
NoneStale == [found |-> {}, kept |-> {}]

\* no render is running (the intersection test bench)
RenderOff ==
    /\ cpc = "Off"
    /\ thread_count = 0
    /\ deterministic = TRUE
    /\ world = NoWorld
    /\ skybox = "Default"
    /\ sender = FALSE
    /\ chan = <<>>
    /\ sent = 0
    /\ joined = 0
    /\ written = 0
    /\ results = <<>>
    /\ output = [header |-> <<>>, lines |-> <<>>]
    /\ lock = 0
    /\ wpc = [w \in Workers |-> "Unborn"]
    /\ winfo = [w \in Workers |-> NoInfo]
    /\ wworld = [w \in Workers |-> NoWorld]
    /\ progress = [w \in Workers |-> 0]
    /\ received = [p \in Pixels |-> 0]
    /\ inserts = [p \in Pixels |-> <<>>]
    /\ out_of_order = FALSE
    /\ closed_queued = FALSE
    /\ stale = NoneStale

\* ------------------------------------------------------------------------
\* Camera::render
\* ------------------------------------------------------------------------
BenchOff ==
    /\ hpc = "off"
    /\ hlist = NoWorld
    /\ hray = Ray(<<0, 0, 0>>, <<1, 1, 1>>, 0)
    /\ hray_t = Interval(Rat(1, 1000), PosInf)
    /\ list_out = NoResult
    /\ bvh_out = NoResult

\* render is called on a camera with an empty result map; the world is the
\* BVH that Scene::render_image builds from the scene's elements
Init ==
    /\ BenchOff
    /\ SceneOff
    /\ VendorOff
    /\ LabOff
    /\ cpc = "Setup"
    /\ thread_count \in ThreadCounts
    /\ deterministic \in BOOLEAN
    /\ world = new_wrapper(RenderElements)
    /\ skybox = "Default"
    /\ sender = FALSE
    /\ chan = <<>>
    /\ sent = 0
    /\ joined = 0
    /\ written = 0
    /\ results = <<>>
    /\ output = [header |-> <<>>, lines |-> <<>>]
    /\ lock = 0
    /\ wpc = [w \in Workers |-> "Unborn"]
    /\ winfo = [w \in Workers |-> NoInfo]
    /\ wworld = [w \in Workers |-> NoWorld]
    /\ progress = [w \in Workers |-> 0]
    /\ received = [p \in Pixels |-> 0]
    /\ inserts = [p \in Pixels |-> <<>>]
    /\ out_of_order = FALSE
    /\ closed_queued = FALSE
    /\ stale = NoneStale

\* OpenOptions::open returns Err: render returns it before any setup
OpenFail ==
    /\ cpc = "Setup"
    /\ cpc' = "Failed"
    /\ UNCHANGED <<thread_count, deterministic, world, skybox, sender, chan,
                   sent, joined, written, results, output>>
    /\ UNCHANGED <<benchVars, apiVars, workerVars, histVars>>

\* the file is opened, thread_setup creates the channel and spawns the
\* workers, each with its clone of the world, and the header is written
Setup ==
    /\ cpc = "Setup"
    /\ sender' = TRUE
    /\ wpc' = [w \in Workers |-> IF w <= thread_count THEN "Idle" ELSE "Unborn"]
    /\ wworld' = [w \in Workers |-> IF w <= thread_count THEN world ELSE NoWorld]
    /\ output' = [output EXCEPT !.header = <<ImageWidth, ImageHeight, 255>>]
    /\ cpc' = "Dispatching"
    /\ UNCHANGED <<thread_count, deterministic, world, skybox, chan, sent,
                   joined, written, results>>
    /\ UNCHANGED <<lock, winfo, progress>>
    /\ UNCHANGED <<benchVars, apiVars, histVars>>

\* a Receiver that outlives thread_setup whatever the number of workers
receiver_alive_always == TRUE

\* the Receiver is alive while a worker holds its Arc
receiver_alive == \E w \in Workers : wpc[w] \in {"Idle", "Recv", "Work"}

\* sender.send(thread_info).unwrap() of the dispatch loops
Dispatch ==
    /\ cpc = "Dispatching"
    /\ sent < PixelCount
    /\ IF receiver_alive
       THEN /\ chan' = Append(chan, dispatch_item(sent))
            /\ sent' = sent + 1
            /\ cpc' = IF sent + 1 = PixelCount THEN "Draining" ELSE cpc
            /\ UNCHANGED sender
       ELSE /\ cpc' = "Aborted"
            /\ sender' = FALSE
            /\ UNCHANGED <<chan, sent>>
    /\ UNCHANGED <<thread_count, deterministic, world, skybox, joined, written,
                   results, output>>
    /\ UNCHANGED <<benchVars, apiVars, workerVars, histVars>>

\* a coordinator that goes on to the joins with the sender alive
CloseChannel_keeps_sender ==
    /\ cpc = "Draining"
    /\ cpc' = "Joining"
    /\ closed_queued' = (chan # <<>>)
    /\ UNCHANGED <<thread_count, deterministic, world, skybox, sender, chan,
                   sent, joined, written, results, output>>
    /\ UNCHANGED <<benchVars, apiVars, workerVars, received, inserts, out_of_order,
                   stale>>

\* drop(sender.take())
CloseChannel ==
    /\ cpc = "Draining"
    /\ sender' = FALSE
    /\ cpc' = "Joining"
    /\ closed_queued' = (chan # <<>>)
    /\ UNCHANGED <<thread_count, deterministic, world, skybox, chan, sent,
                   joined, written, results, output>>
    /\ UNCHANGED <<benchVars, apiVars, workerVars, received, inserts, out_of_order,
                   stale>>

\* a join that returns while the worker is still running
Join_without_wait ==
    /\ cpc = "Joining"
    /\ joined < thread_count
    /\ joined' = joined + 1
    /\ cpc' = IF joined + 1 = thread_count THEN "Serializing" ELSE cpc
    /\ UNCHANGED <<thread_count, deterministic, world, skybox, sender, chan,
                   sent, written, results, output>>
    /\ UNCHANGED <<benchVars, apiVars, workerVars, histVars>>

\* thread.join().unwrap() on the next handle: returns once that worker exited
Join ==
    /\ cpc = "Joining"
    /\ joined < thread_count
    /\ wpc[joined + 1] = "Exited"
    /\ joined' = joined + 1
    /\ cpc' = IF joined + 1 = thread_count THEN "Serializing" ELSE cpc
    /\ UNCHANGED <<thread_count, deterministic, world, skybox, sender, chan,
                   sent, written, results, output>>
    /\ UNCHANGED <<benchVars, apiVars, workerVars, histVars>>

\* self.results.remove(&(i, j)).unwrap().1 and writeln!(bw, "{color}") of
\* the write loops; ok is FALSE when the write returns Err
SerializeStep(ok) ==
    /\ cpc = "Serializing"
    /\ written < PixelCount
    /\ LET key == drain_key(written)
       IN  IF key \notin DOMAIN results
           THEN /\ cpc' = "Aborted"
                /\ UNCHANGED <<written, results, output>>
           ELSE /\ results' = remove(results, key)
                /\ IF ok
                   THEN /\ output' = [output EXCEPT
                                         !.lines = Append(@, results[key])]
                        /\ written' = written + 1
                        /\ UNCHANGED cpc
                   ELSE /\ cpc' = "Failed"
                        /\ UNCHANGED <<written, output>>
    /\ UNCHANGED <<thread_count, deterministic, world, skybox, sender, chan,
                   sent, joined>>
    /\ UNCHANGED <<benchVars, apiVars, workerVars, histVars>>

Serialize == SerializeStep(TRUE)

WriteFail == SerializeStep(FALSE)

\* bw.flush() and self.mp.clear() after the write loops; ok is FALSE when
\* flush returns Err
FinishStep(ok) ==
    /\ cpc = "Serializing"
    /\ written = PixelCount
    /\ cpc' = IF ok THEN "Done" ELSE "Failed"
    /\ UNCHANGED <<thread_count, deterministic, world, skybox, sender, chan,
                   sent, joined, written, results, output>>
    /\ UNCHANGED <<benchVars, apiVars, workerVars, histVars>>

Finish == FinishStep(TRUE)

FlushFail == FinishStep(FALSE)

\* ------------------------------------------------------------------------
\* start_thread_cpu: the loop of worker w
\* ------------------------------------------------------------------------
\* receiver.lock().unwrap()
WorkerLock(w) ==
    /\ wpc[w] = "Idle"
    /\ lock = 0
    /\ lock' = w
    /\ wpc' = [wpc EXCEPT ![w] = "Recv"]
    /\ UNCHANGED <<winfo, wworld, progress>>
    /\ UNCHANGED <<benchVars, apiVars, coordVars, histVars>>

\* recv() returns Ok(info); the guard of the mutex is dropped
WorkerRecv(w) ==
    /\ wpc[w] = "Recv"
    /\ chan # <<>>
    /\ ~disconnected(chan, sender)
    /\ winfo' = [winfo EXCEPT ![w] = Head(chan)]
    /\ chan' = Tail(chan)
    /\ lock' = 0
    /\ wpc' = [wpc EXCEPT ![w] = "Work"]
    /\ received' = [received EXCEPT ![Head(chan)] = @ + 1]
    /\ UNCHANGED <<wworld, progress, inserts, out_of_order, closed_queued, stale>>
    /\ UNCHANGED <<cpc, thread_count, deterministic, world, skybox, sender,
                   sent, joined, written, results, output>>
    /\ UNCHANGED <<benchVars, apiVars>>

\* recv() returns Err: pb.finish_and_clear() and break
WorkerExit(w) ==
    /\ wpc[w] = "Recv"
    /\ disconnected(chan, sender)
    /\ lock' = 0
    /\ wpc' = [wpc EXCEPT ![w] = "Exited"]
    /\ UNCHANGED <<winfo, wworld, progress>>
    /\ UNCHANGED <<benchVars, apiVars, coordVars, histVars>>

\* if progress % 10 == 0 of the Ok(info) arm
ReportEvery == 10

\* an Ok(info) arm that computes and inserts the pixel only in the
\* iterations that update the progress bar
render_pixel_when_reported(w, pr) ==
    IF pr % ReportEvery = 0
    THEN \E s \in Times :
         \E c \in {cast_ray(winfo[w][1], winfo[w][2],
                             time_sample(deterministic, 0, s), skybox, wworld[w])} :
            LET key == winfo[w]
            IN  /\ wworld' = set_world(wworld, w, c.world)
                /\ results' = insert(results, key, c.color)
                /\ inserts' = [inserts EXCEPT ![key] = Append(@, c.color)]
                /\ stale' = [stale EXCEPT !.kept = @ \ {key}]
                /\ out_of_order' =
                      (out_of_order \/ \E p \in DOMAIN results \ stale.kept :
                                          raster_index(p) > raster_index(key))
    ELSE UNCHANGED <<wworld, results, inserts, out_of_order, stale>>

\* the Ok(info) arm in an iteration whose progress counter is pr: cast_ray
\* on the worker's world and results.insert; the update of the progress
\* bar that follows when pr % 10 == 0 touches the bar only
render_pixel(w, pr) ==
    \E s \in Times :
    \E c \in {cast_ray(winfo[w][1], winfo[w][2],
                        time_sample(deterministic, 0, s), skybox, wworld[w])} :
       LET key == winfo[w]
       IN  /\ wworld' = set_world(wworld, w, c.world)
           /\ results' = insert(results, key, c.color)
           /\ inserts' = [inserts EXCEPT ![key] = Append(@, c.color)]
           /\ stale' = [stale EXCEPT !.kept = @ \ {key}]
           /\ out_of_order' =
                 (out_of_order \/ \E p \in DOMAIN results \ stale.kept :
                                     raster_index(p) > raster_index(key))

\* the Ok(info) arm: cast_ray on the worker's world, results.insert and the
\* progress counter
WorkerRender(w) ==
    /\ wpc[w] = "Work"
    /\ wpc' = [wpc EXCEPT ![w] = "Idle"]
    /\ progress' = [progress EXCEPT ![w] = @ + 1]
    /\ winfo' = [winfo EXCEPT ![w] = NoInfo]
    /\ UNCHANGED <<lock, received, closed_queued>>
    /\ UNCHANGED <<cpc, thread_count, deterministic, world, skybox, sender,
                   chan, sent, joined, written, output>>
    /\ UNCHANGED <<benchVars, apiVars>>
    /\ render_pixel(w, progress[w])

Worker(w) == WorkerLock(w) \/ WorkerRecv(w) \/ WorkerExit(w) \/ WorkerRender(w)

Next ==
    \/ OpenFail
    \/ Setup
    \/ Dispatch
    \/ CloseChannel
    \/ Join
    \/ Serialize
    \/ WriteFail
    \/ Finish
    \/ FlushFail
    \/ \E w \in Workers : Worker(w)

Spec == Init /\ [][Next]_vars

\* a step of the coordinator whose I/O call, if any, succeeds
Coordinator ==
    Setup \/ Dispatch \/ CloseChannel \/ Join \/ Serialize \/ Finish

\* the scheduler runs every thread that can take a step, and an I/O call
\* that does not fail returns
SpecLive ==
    /\ Spec
    /\ WF_vars(Coordinator)
    /\ \A w \in Workers : WF_vars(Worker(w))

\* ------------------------------------------------------------------------
\* A render in which worker threads may panic
\* ------------------------------------------------------------------------
\* an unwrap of the Ok(info) arm panics before results.insert: the thread
\* unwinds outside the mutex, drops its Arc of the receiver and ends with
\* the item it held
WorkerPanic(w) ==
    /\ wpc[w] = "Work"
    /\ wpc' = [wpc EXCEPT ![w] = "Panicked"]
    /\ UNCHANGED <<lock, winfo, wworld, progress>>
    /\ UNCHANGED <<benchVars, apiVars, coordVars, histVars>>

\* a join that swallows the Err of a panicked worker
JoinPanic_ignored ==
    /\ cpc = "Joining"
    /\ joined < thread_count
    /\ wpc[joined + 1] = "Panicked"
    /\ joined' = joined + 1
    /\ cpc' = IF joined + 1 = thread_count THEN "Serializing" ELSE cpc
    /\ UNCHANGED <<thread_count, deterministic, world, skybox, sender, chan,
                   sent, written, results, output>>
    /\ UNCHANGED <<benchVars, apiVars, workerVars, histVars>>

\* thread.join().unwrap() on the handle of a panicked worker: join returns
\* Err and the unwrap panics in the coordinator
JoinPanic ==
    /\ cpc = "Joining"
    /\ joined < thread_count
    /\ wpc[joined + 1] = "Panicked"
    /\ cpc' = "Aborted"
    /\ UNCHANGED <<thread_count, deterministic, world, skybox, sender, chan,
                   sent, joined, written, results, output>>
    /\ UNCHANGED <<benchVars, apiVars, workerVars, histVars>>

NextFault ==
    \/ Next
    \/ JoinPanic
    \/ \E w \in Workers : WorkerPanic(w)

SpecFault == Init /\ [][NextFault]_vars

\* ------------------------------------------------------------------------
\* Scene and Camera: construction, configuration and render_scene
\* ------------------------------------------------------------------------
\* largest image width of a scene
MaxWidth == 4
\* largest frame rate of a scene
MaxRate == 2
\* largest argument of set_samples
MaxSamples == 2
\* durations are k / 2 seconds, k in 0..MaxHalfSeconds
MaxHalfSeconds == 3

\* stands for u32::MAX and usize::MAX, where the casts saturate: both lie
\* above every integer of the model
UintCap == 2147483647
\* let samples = 10 of Camera::new
DefaultSamples == 10
\* the maximum color value of the header
MaxColor == 255

\* a / b on f64
RDiv(a, b) ==
    The({IF IsNaN(x) \/ IsNaN(y) THEN NaN
         ELSE IF x[2] = 0 THEN (IF y[2] = 0 THEN NaN
                                ELSE <<x[1] * (IF y[1] < 0 THEN -1 ELSE 1), 0>>)
         ELSE IF y[2] = 0 THEN <<0, 1>>
         ELSE Rat(x[1] * y[2], x[2] * y[1]) :
           x \in {a}, y \in {b}})

\* f64::ceil
ceil(a) == IF a[2] = 0 THEN a ELSE <<-((-a[1]) \div a[2]), 1>>

\* "as u32" and "as usize" of an f64: truncates toward zero, saturates at
\* the bounds of the type, NaN gives 0
as_uint(a, max) ==
    IF a[2] = 0 THEN (IF a[1] > 0 THEN max ELSE 0)
    ELSE IF a[1] <= 0 THEN 0
    ELSE Min2(a[1] \div a[2], max)

\* Angles are kept as rational multiples of pi when in radians and as
\* rationals when in degrees.  A product of an f64 with the tangent of an
\* angle is kept as the pair of the factor and the angle: coef * tan(tan_of).
TanTimes(coef, angle) == [coef |-> coef, tan_of |-> angle]

\* Radians::new_from_degrees, Degrees::as_radians
as_radians(degrees) == RDiv(degrees, FromInt(180))

\* Degrees::new_from_radians, Radians::as_degrees
as_degrees(radians) == RMul(radians, FromInt(180))

\* a viewport whose height is not clamped to at least one row
Viewport_new_unclamped(aspect_ratio, image_width) ==
    [viewport_height |-> TanTimes(FromInt(0), FromInt(0)),
     viewport_width |-> TanTimes(FromInt(0), FromInt(0)),
     image_width |-> image_width,
     image_height |-> as_uint(RDiv(FromInt(image_width), aspect_ratio), UintCap)]

\* Viewport::new
Viewport_new(aspect_ratio, image_width) ==
    [viewport_height |-> TanTimes(FromInt(0), FromInt(0)),
     viewport_width |-> TanTimes(FromInt(0), FromInt(0)),
     image_width |-> image_width,
     image_height |->
        Max2(1, as_uint(RDiv(FromInt(image_width), aspect_ratio), UintCap))]

\* image_width as f64 / image_height as f64
pixel_ratio(v) == RDiv(FromInt(v.image_width), FromInt(v.image_height))

\* Camera::fix_viewport
fix_viewport(cam) ==
    LET height == TanTimes(RMul(FromInt(2), cam.focus_dist),
                           RDiv(cam.vfov, FromInt(2)))
    IN [cam EXCEPT
          !.viewport.viewport_height = height,
          !.viewport.viewport_width =
              TanTimes(RMul(height.coef, pixel_ratio(cam.viewport)),
                       height.tan_of)]

\* Camera::new: both look points start at the origin; the viewport is sized
\* with the focal length 1, the length of (0, 0, 0) - (0, 0, -1)
Camera_new(aspect_ratio, image_width, rate) ==
    LET fov == as_radians(FromInt(90))
        v == Viewport_new(aspect_ratio, image_width)
        focal_length == FromInt(1)
        height == TanTimes(RMul(FromInt(2), focal_length), RDiv(fov, FromInt(2)))
    IN
    [viewport |-> [v EXCEPT
                     !.viewport_height = height,
                     !.viewport_width =
                         TanTimes(RMul(height.coef, pixel_ratio(v)),
                                  height.tan_of)],
     vfov |-> fov,
     defocus_angle |-> as_radians(FromInt(0)),
     focus_dist |-> FromInt(10),
     aspect_ratio |-> aspect_ratio,
     look_from |-> <<0, 0, 0>>,
     look_at |-> <<0, 0, 0>>,
     samples |-> DefaultSamples,
     frame_rate |-> FromInt(rate),
     frame |-> 0]

\* Point3::unit_vector: self / self.length(); the zero vector gives 0 / 0
\* in each coordinate
unit_vector(v) == [nan |-> Dot(v, v) = 0, dir |-> v]

\* Camera::w_basis
w_basis(cam) == unit_vector(VSub(cam.look_from, cam.look_at))

\* the current frame time of cast_ray
current_time(cam) == RMul(FromInt(cam.frame), RDiv(FromInt(1), cam.frame_rate))

\* Camera::render as its caller sees it: what it returns (ret), the header
\* and the number of pixel lines of the file, and what cast_ray computes
\* for each pixel: the frame time, the w basis vector and the length of the
\* vector of samples handed to average_samples
Camera_render(cam, ret) ==
    [frame |-> cam.frame,
     current_time |-> current_time(cam),
     w_basis |-> w_basis(cam),
     sample_colors |-> cam.samples,
     header |-> IF ret = "OpenErr" THEN <<>>
                ELSE <<"P3", cam.viewport.image_width,
                       cam.viewport.image_height, MaxColor>>,
     lines |-> IF ret = "Ok"
               THEN cam.viewport.image_height * cam.viewport.image_width
               ELSE 0,
     ret |-> ret]

\* the ways a call of Camera::render ends: Ok(()), the Err of the open, or
\* a panic of the calling thread before a pixel line is written
RenderOutcomes == {"Ok", "OpenErr", "Panic"}

AspectRatios == {Rat(1, 2), Rat(1, 1), Rat(16, 9), Rat(5, 1)}

\* Scene.duration: None for an image, Some(seconds) for a movie
Durations ==
    {[some |-> TRUE, v |-> Rat(k, 2)] : k \in 0..MaxHalfSeconds}
        \cup {[some |-> FALSE, v |-> NaN]}

CamPoints == {<<0, 0, 0>>, <<0, 0, 1>>}

Called(op, arg, ret) == [op |-> op, arg |-> arg, ret |-> ret]

\* Scene::new_image or Scene::new_movie has returned
InitScene ==
    /\ RenderOff
    /\ BenchOff
    /\ VendorOff
    /\ LabOff
    /\ spc = "Built"
    /\ duration \in Durations
    /\ frame_rate \in 1..MaxRate
    /\ \E a \in AspectRatios, iw \in 1..MaxWidth :
          scene_cam = Camera_new(a, iw, frame_rate)
    /\ frames = 0
    /\ frame = 0
    /\ renders = <<>>
    /\ call = Called("new", 0, "()")

\* Camera::look_from
look_from(loc) ==
    /\ spc = "Built"
    /\ scene_cam' = fix_viewport([scene_cam EXCEPT !.look_from = loc])
    /\ call' = Called("look_from", loc, "()")
    /\ UNCHANGED <<spc, duration, frame_rate, frames, frame, renders>>
    /\ UNCHANGED <<renderVars, benchVars, vendorVars, labVars>>

\* Camera::look_at
look_at(loc) ==
    /\ spc = "Built"
    /\ scene_cam' = fix_viewport([scene_cam EXCEPT !.look_at = loc])
    /\ call' = Called("look_at", loc, "()")
    /\ UNCHANGED <<spc, duration, frame_rate, frames, frame, renders>>
    /\ UNCHANGED <<renderVars, benchVars, vendorVars, labVars>>

\* a set_samples without the assertion
set_samples_unchecked(s) ==
    /\ spc = "Built"
    /\ scene_cam' = [scene_cam EXCEPT !.samples = s]
    /\ call' = Called("set_samples", s, "()")
    /\ UNCHANGED <<spc, duration, frame_rate, frames, frame, renders>>
    /\ UNCHANGED <<renderVars, benchVars, vendorVars, labVars>>

\* Camera::set_samples: assert!(s > 0) panics before the assignment
set_samples(s) ==
    /\ spc = "Built"
    /\ IF s > 0
       THEN /\ scene_cam' = [scene_cam EXCEPT !.samples = s]
            /\ call' = Called("set_samples", s, "()")
            /\ UNCHANGED spc
       ELSE /\ spc' = "Panicked"
            /\ call' = Called("set_samples", s, "panic")
            /\ UNCHANGED scene_cam
    /\ UNCHANGED <<duration, frame_rate, frames, frame, renders>>
    /\ UNCHANGED <<renderVars, benchVars, vendorVars, labVars>>

\* Scene::render_image: Camera::render and the match on its result, both
\* arms of which print to stderr and return ()
render_image(ret) == renders' = Append(renders, Camera_render(scene_cam, ret))

\* a frame count that rounds down
compute_frame_count_floor(d, rate) ==
    as_uint(RMul(d.v, FromInt(rate)), UintCap)

\* Scene::compute_frame_count
compute_frame_count(d, rate) ==
    as_uint(ceil(RMul(d.v, FromInt(rate))), UintCap)

\* Scene::render_scene of an image scene: one render_image, after which
\* render_scene returns () whatever Camera::render returned
RenderSceneImage ==
    /\ spc = "Built"
    /\ ~duration.some
    /\ \E ret \in RenderOutcomes :
          /\ render_image(ret)
          /\ spc' = IF ret = "Panic" THEN "Panicked" ELSE "Returned"
          /\ call' = Called("render_scene", 0,
                            IF ret = "Panic" THEN "panic" ELSE "()")
    /\ UNCHANGED <<scene_cam, duration, frame_rate, frames, frame>>
    /\ UNCHANGED <<renderVars, benchVars, vendorVars, labVars>>

\* Scene::render_scene of a movie scene, up to the frame loop of
\* render_movie: the directories are created (expect panics when they
\* cannot be) and the frame count is computed
RenderSceneMovie ==
    /\ spc = "Built"
    /\ duration.some
    /\ \E created \in BOOLEAN :
          IF created
          THEN /\ spc' = "Movie"
               /\ frames' = compute_frame_count(duration, frame_rate)
               /\ frame' = 0
               /\ call' = Called("render_scene", 0, "running")
          ELSE /\ spc' = "Panicked"
               /\ call' = Called("render_scene", 0, "panic")
               /\ UNCHANGED <<frames, frame>>
    /\ UNCHANGED <<scene_cam, duration, frame_rate, renders>>
    /\ UNCHANGED <<renderVars, benchVars, vendorVars, labVars>>

\* Camera::next_frame
next_frame(cam) == [cam EXCEPT !.frame = @ + 1]

\* one iteration of the frame loop of render_movie: render_image, then
\* next_frame
MovieFrame ==
    /\ spc = "Movie"
    /\ frame < frames
    /\ \E ret \in RenderOutcomes :
          /\ render_image(ret)
          /\ IF ret = "Panic"
             THEN /\ spc' = "Panicked"
                  /\ call' = Called("render_scene", 0, "panic")
                  /\ UNCHANGED <<scene_cam, frame>>
             ELSE /\ scene_cam' = next_frame(scene_cam)
                  /\ frame' = frame + 1
                  /\ UNCHANGED <<spc, call>>
    /\ UNCHANGED <<duration, frame_rate, frames>>
    /\ UNCHANGED <<renderVars, benchVars, vendorVars, labVars>>

\* the frame loop is over: make_mp4, and render_scene returns ()
MovieEnd ==
    /\ spc = "Movie"
    /\ frame = frames
    /\ spc' = "Returned"
    /\ call' = Called("render_scene", 0, "()")
    /\ UNCHANGED <<scene_cam, duration, frame_rate, frames, frame, renders>>
    /\ UNCHANGED <<renderVars, benchVars, vendorVars, labVars>>

NextScene ==
    \/ \E loc \in CamPoints : look_from(loc) \/ look_at(loc)
    \/ \E s \in 0..MaxSamples : set_samples(s)
    \/ RenderSceneImage
    \/ RenderSceneMovie
    \/ MovieFrame
    \/ MovieEnd

SpecScene == InitScene /\ [][NextScene]_vars

\* ------------------------------------------------------------------------
\* IdVendor
\* ------------------------------------------------------------------------
\* largest number of vend_id calls made on a vendor
MaxCalls == 4

\* the aliases a scene author uses; "cam" is the reserved one
Aliases == {"cam", "ball", "floor"}

\* IdVendor::new: the camera is registered under "cam" with id 0
IdVendor_new ==
    [id_map |-> ("cam" :> [id |-> 0, o_type |-> "Camera"]), id_to_vend |-> 1]

\* a vend_id without the contains_key test
vend_id_overwrites(v, alias, t) ==
    [vendor |-> [id_map |-> (alias :> [id |-> v.id_to_vend, o_type |-> t])
                               @@ v.id_map,
                 id_to_vend |-> v.id_to_vend + 1],
     ret |-> [some |-> TRUE, id |-> v.id_to_vend]]

\* a vend_id that does not advance id_to_vend
vend_id_reuses(v, alias, t) ==
    IF alias \in DOMAIN v.id_map
    THEN [vendor |-> v, ret |-> [some |-> FALSE, id |-> 0]]
    ELSE [vendor |-> [id_map |-> (alias :> [id |-> v.id_to_vend, o_type |-> t])
                                    @@ v.id_map,
                      id_to_vend |-> v.id_to_vend],
          ret |-> [some |-> TRUE, id |-> v.id_to_vend]]

\* IdVendor::vend_id: the vendor after the call and the Option it returns
vend_id(v, alias, t) ==
    IF alias \in DOMAIN v.id_map
    THEN [vendor |-> v, ret |-> [some |-> FALSE, id |-> 0]]
    ELSE [vendor |-> [id_map |-> (alias :> [id |-> v.id_to_vend, o_type |-> t])
                                    @@ v.id_map,
                      id_to_vend |-> v.id_to_vend + 1],
          ret |-> [some |-> TRUE, id |-> v.id_to_vend]]

\* IdVendor::alias_lookup: the Option<ObjectInfo> it returns
alias_lookup(v, alias) ==
    IF alias \in DOMAIN v.id_map
    THEN [some |-> TRUE, info |-> v.id_map[alias]]
    ELSE [some |-> FALSE, info |-> [id |-> 0, o_type |-> "Camera"]]

\* IdVendor::new has returned
InitVendor ==
    /\ RenderOff
    /\ BenchOff
    /\ SceneOff
    /\ LabOff
    /\ vpc = "On"
    /\ id_vendor = IdVendor_new
    /\ vended = <<>>

\* a call vend_id(alias, t) on the vendor
VendIdCall(alias, t) ==
    /\ vpc = "On"
    /\ Len(vended) < MaxCalls
    /\ \E r \in {vend_id(id_vendor, alias, t)} :
          /\ id_vendor' = r.vendor
          /\ vended' = Append(vended, [alias |-> alias, o_type |-> t, ret |-> r.ret])
    /\ UNCHANGED <<vpc, renderVars, benchVars, sceneVars, labVars>>

NextVendor ==
    \E alias \in Aliases, t \in {"Sphere", "Triangle"} : VendIdCall(alias, t)

SpecVendor == InitVendor /\ [][NextVendor]_vars

\* ------------------------------------------------------------------------
\* Inputs of the intersection test bench
\* ------------------------------------------------------------------------
\* a triangle in the plane x + y + z = 3
TriNear == Triangle_new(<<3, 0, 0>>, <<0, 3, 0>>, <<0, 0, 3>>, NoVel, 1)

\* a triangle in the plane x + y + z = 6
TriFar == Triangle_new(<<6, 0, 0>>, <<0, 6, 0>>, <<0, 0, 6>>, NoVel, 2)

\* an axis-aligned triangle in the plane z = 2
TriFlat == Triangle_new(<<0, 0, 2>>, <<6, 0, 2>>, <<0, 6, 2>>, NoVel, 3)

\* a triangle that its timeline moves into the place of TriNear at time 1
TriMoving ==
    Triangle_new(<<-17, 0, 0>>, <<-20, 3, 0>>, <<-20, 0, 3>>, <<20, 0, 0>>, 4)

\* a hidden triangle in the plane x + y + z = 3
TriHidden ==
    [Triangle_new(<<3, 0, 0>>, <<0, 3, 0>>, <<0, 0, 3>>, NoVel, 5)
        EXCEPT !.hide = TRUE]

\* a nested BVH over two triangles in the planes x + y + z = 9 and 12
Nested ==
    new_wrapper(ListOf(<<
        Triangle_new(<<9, 0, 0>>, <<0, 9, 0>>, <<0, 0, 9>>, NoVel, 6),
        Triangle_new(<<12, 0, 0>>, <<0, 12, 0>>, <<0, 0, 12>>, NoVel, 7)>>))

Candidates == {TriNear, TriFar, TriFlat, TriMoving, TriHidden, Nested}

Scenes == UNION {[1..n -> Candidates] : n \in 1..MaxObjs}

BenchRays ==
    {Ray(o, d, tm) : o \in {<<0, 0, 0>>, <<0, 0, 4>>},
                     d \in {<<1, 1, 1>>, <<1, 1, -1>>}, tm \in Times}

\* the interval of ray_color, and a bounded one
BenchIntervals ==
    {Interval(Rat(1, 1000), PosInf), Interval(Rat(1, 1000), Rat(5, 2))}

\* ------------------------------------------------------------------------
\* Intersection test bench
\* ------------------------------------------------------------------------
\* one scene, one ray and one query interval
InitHit ==
    /\ hpc = "start"
    /\ \E sc \in Scenes : hlist = ListOf(sc)
    /\ hray \in BenchRays
    /\ hray_t \in BenchIntervals
    /\ list_out = NoResult
    /\ bvh_out = NoResult
    /\ RenderOff
    /\ SceneOff
    /\ VendorOff
    /\ LabOff

\* HitList::hit on the scene's list
BenchList ==
    /\ hpc = "start"
    /\ list_out' = Hittables_hit(hlist, hray, hray_t)
    /\ hpc' = "listed"
    /\ UNCHANGED <<hlist, hray, hray_t, bvh_out, renderVars, apiVars>>

\* hit on the BVH that new_wrapper builds from the same list
BenchBvh ==
    /\ hpc = "listed"
    /\ bvh_out' = Hittables_hit(new_wrapper(hlist), hray, hray_t)
    /\ hpc' = "done"
    /\ UNCHANGED <<hlist, hray, hray_t, list_out, renderVars, apiVars>>

NextHit == BenchList \/ BenchBvh

SpecHit == InitHit /\ [][NextHit]_vars

\* C7: the BVH and the linear scan return the same hit (same primitive,
\* same t), or both return no hit
BvhEqualsList == hpc = "done" => bvh_out.rec = list_out.rec

\* the hit records of a set that have the smallest t
Nearest(hits) == {h \in hits : \A g \in hits : RLe(h.t, g.t)}

\* every BVHWrapper::hit that passed its box test in the two queries
AllVisits ==
    {bvh_out.visits[k] : k \in 1..Len(bvh_out.visits)}
        \cup {list_out.visits[k] : k \in 1..Len(list_out.visits)}

\* C8: the right subtree is queried on [min, t_left] when the left subtree
\* hit and on [min, max] otherwise, the upper bound never exceeds the
\* caller's max, a right hit is nearer than the left hit, and the value
\* returned is the nearer of the two subtrees' hits
BvhNarrowing ==
    \A v \in AllVisits :
        /\ v.right_t.min = v.ray_t.min
        /\ v.right_t.max = (IF v.hit_left.hit THEN v.hit_left.t ELSE v.ray_t.max)
        /\ RLe(v.right_t.max, v.ray_t.max)
        /\ (v.hit_left.hit /\ v.hit_right.hit) => RLt(v.hit_right.t, v.hit_left.t)
        /\ LET hits == {h \in {v.hit_left, v.hit_right} : h.hit}
           IN  IF hits = {} THEN ~v.rec.hit ELSE v.rec \in Nearest(hits)

\* a BVH node both of whose subtrees hit
BvhBothHit ==
    /\ hpc = "done"
    /\ \E k \in 1..Len(bvh_out.visits) :
          bvh_out.visits[k].hit_left.hit /\ bvh_out.visits[k].hit_right.hit

\* C9: HitList::hit returns the nearest of its children's hits inside the
\* query interval (none when no child hits), and the upper bound given to
\* each child is the t of the closest hit found so far (the query's max
\* before the first hit) and never increases
ListNearest ==
    \A n \in 1..Len(list_out.scans) :
        LET s == list_out.scans[n]
            hits == {h \in {Hittables_hit(s.objs[k], hray, s.ray_t).rec :
                               k \in 1..Len(s.objs)} : h.hit}
            found(k) == {h \in {s.steps[i].child : i \in 1..(k - 1)} : h.hit}
        IN  /\ IF hits = {} THEN ~s.rec.hit ELSE s.rec \in Nearest(hits)
            /\ \A h \in hits : surrounds(s.ray_t, h.t)
            /\ \A k \in 1..Len(s.steps) :
                  /\ s.steps[k].interval.min = s.ray_t.min
                  /\ IF found(k) = {}
                     THEN s.steps[k].interval.max = s.ray_t.max
                     ELSE \E h \in Nearest(found(k)) :
                             s.steps[k].interval.max = h.t
                  /\ k > 1 => RLe(s.steps[k].interval.max,
                                  s.steps[k - 1].interval.max)

\* a scan whose first child hit and whose later child, farther away, is cut
\* off by the narrowed bound
ListNarrowed ==
    /\ hpc = "done"
    /\ \E n \in 1..Len(list_out.scans) :
          LET s == list_out.scans[n]
          IN  /\ Len(s.steps) >= 2
              /\ s.steps[1].child.hit
              /\ s.steps[2].interval.max = s.steps[1].child.t
              /\ ~s.steps[2].child.hit
              /\ Hittables_hit(s.objs[2], hray, s.ray_t).rec.hit

\* ------------------------------------------------------------------------
\* Properties of the render
\* ------------------------------------------------------------------------
Last(q) == q[Len(q)]

\* the workers that thread_setup spawned
Spawned == {w \in Workers : wpc[w] # "Unborn"}

\* C1: the k-th pixel line written is the color stored in the result map
\* under key (k mod width, k div width), k from 0
RasterOrder ==
    \A k \in 1..Len(output.lines) :
        LET key == <<(k - 1) % ImageWidth, (k - 1) \div ImageWidth>>
        IN  /\ inserts[key] # <<>>
            /\ output.lines[k] = Last(inserts[key])

\* a finished render of several workers that completed a pixel before an
\* earlier one, and whose image shows more than one color
RasterDespiteCompletionOrder ==
    /\ cpc = "Done"
    /\ out_of_order
    /\ \A w \in 1..MaxThreads : progress[w] > 0
    /\ \E k \in 1..Len(output.lines) : output.lines[k] # output.lines[1]

\* C2: the map holds exactly one entry per pixel when the drain starts; the
\* entries left are those of the pixels not written yet; the map is empty
\* when render returns Ok
DrainExact ==
    /\ (cpc = "Serializing" /\ written = 0)
          => /\ DOMAIN results = Pixels
             /\ Cardinality(DOMAIN results) = ImageWidth * ImageHeight
    /\ cpc \in {"Serializing", "Done"}
          => /\ DOMAIN results =
                   {<<k % ImageWidth, k \div ImageWidth>> :
                      k \in written..(ImageWidth * ImageHeight - 1)}
             /\ Len(output.lines) = written
    /\ cpc = "Done" => DOMAIN results = {}

\* render returned Ok after draining a full map
DrainedAll ==
    /\ cpc = "Done"
    /\ thread_count >= 1
    /\ written = ImageWidth * ImageHeight
    /\ results = <<>>

\* number of workers that hold the item of pixel p
Holders(p) == Cardinality({w \in Workers : wpc[w] = "Work" /\ winfo[w] = p})

\* number of times the item of pixel p occurs in the channel
Queued(p) == Cardinality({n \in 1..Len(chan) : chan[n] = p})

\* C3: every item sent is in the channel or was received exactly once, a
\* received item is held by one worker or was inserted once, and when all
\* the workers have exited every item was received and inserted once
ExactlyOnce ==
    \A p \in Pixels :
        /\ received[p] <= 1
        /\ Queued(p) + received[p] = (IF p[2] * ImageWidth + p[1] < sent THEN 1 ELSE 0)
        /\ Holders(p) + Len(inserts[p]) = received[p]
        /\ (Spawned # {} /\ \A w \in Spawned : wpc[w] = "Exited")
              => (received[p] = 1 /\ Len(inserts[p]) = 1)

\* a finished render whose channel was closed while items were queued
ClosedWhileQueued ==
    /\ cpc = "Done"
    /\ closed_queued
    /\ \A w \in 1..MaxThreads : progress[w] > 0
    /\ \A p \in Pixels : received[p] = 1 /\ Len(inserts[p]) = 1

PhaseRank(ph) ==
    CASE ph = "Setup" -> 0
      [] ph = "Dispatching" -> 1
      [] ph = "Draining" -> 2
      [] ph = "Joining" -> 3
      [] ph = "Serializing" -> 4
      [] ph = "Done" -> 5
      [] OTHER -> 6

\* C4: the phases follow one another in the order Setup, Dispatching,
\* Draining, Joining, Serializing, Done (a render that fails leaves the
\* sequence for good); the coordinator drops the sender only after all
\* items were sent, and removes a pixel from the result map only when every
\* worker has exited
PhaseOrder ==
    [][/\ cpc' # cpc =>
             \/ PhaseRank(cpc') = PhaseRank(cpc) + 1
             \/ (PhaseRank(cpc) < 5 /\ cpc' \in {"Failed", "Aborted"})
       /\ (sender /\ ~sender' /\ cpc' # "Aborted") =>
             (sent = ImageWidth * ImageHeight /\ chan' = chan)
       /\ (DOMAIN results' # DOMAIN results /\ DOMAIN results' \subseteq DOMAIN results)
             => \A w \in Spawned : wpc[w] = "Exited"]_vars

\* a render that went through all the phases
ReachedDone == cpc = "Done" /\ thread_count = MaxThreads /\ joined = MaxThreads

ReferenceImage ==
    [k \in 1..(ImageWidth * ImageHeight) |->
        cast_ray((k - 1) % ImageWidth, (k - 1) \div ImageWidth, 0, "Default",
                 new_wrapper(RenderElements)).color]

\* C6: with deterministic sampling the output is the same for every thread
\* count and every interleaving of the workers
ThreadCountIndependent ==
    (cpc = "Done" /\ deterministic) =>
        output = [header |-> <<ImageWidth, ImageHeight, 255>>,
                  lines |-> ReferenceImage]

\* a deterministic render finished by MaxThreads workers that all rendered
\* pixels, out of raster order
DeterministicParallelDone ==
    /\ cpc = "Done"
    /\ deterministic
    /\ thread_count = MaxThreads
    /\ out_of_order
    /\ \A w \in Workers : progress[w] > 0

\* C10: no step changes the world or the skybox passed to render, so both
\* are as passed in when render returns; a step of worker w leaves the
\* clones of the other workers, the output and the coordinator's sender and
\* counters as they were; of the state it shares it only takes the head
\* item off the work channel and inserts under its own key into the result
\* map
WorkerIsolation ==
    [][/\ world' = world
       /\ skybox' = skybox
       /\ \A w \in Workers :
             (wpc[w] \in {"Idle", "Recv", "Work"} /\ wpc'[w] # wpc[w]) =>
                /\ \A v \in Workers \ {w} : wworld'[v] = wworld[v]
                /\ output' = output
                /\ <<cpc, thread_count, deterministic, sender, sent, joined, written>>' =
                      <<cpc, thread_count, deterministic, sender, sent, joined, written>>
                /\ chan' = chan \/ (chan # <<>> /\ chan' = Tail(chan))
                /\ results' # results =>
                      /\ DOMAIN results' = DOMAIN results \cup {winfo[w]}
                      /\ \A p \in DOMAIN results \ {winfo[w]} :
                            results'[p] = results[p]]_vars

\* a worker whose traversal changed the boxes of its clone, next to a worker
\* whose clone is still the world passed to render
CloneDiverged ==
    \E w, v \in Spawned :
        /\ wworld[w] # world
        /\ wworld[v] = world
        /\ progress[v] > 0

\* ------------------------------------------------------------------------
\* C11: once a worker has panicked while computing a pixel, the coordinator
\* never reaches Serializing or Done, no pixel line is written, the worker
\* stays dead and the pixel it held is inserted by no other worker
\* ------------------------------------------------------------------------
Faulted == {w \in Workers : wpc[w] = "Panicked"}

WorkerFaultFailsRender ==
    [][/\ Faulted # {} =>
            /\ Faulted \subseteq {w \in Workers : wpc'[w] = "Panicked"}
            /\ \A w \in Faulted : winfo'[w] = winfo[w]
       /\ \A w \in Workers : wpc'[w] = "Panicked" =>
            /\ cpc' \notin {"Serializing", "Done"}
            /\ output'.lines = <<>>
            /\ winfo'[w] \in Pixels
            /\ received'[winfo'[w]] = 1
            /\ inserts'[winfo'[w]] = <<>>
            /\ winfo'[w] \notin DOMAIN results']_vars

\* the coordinator panicked on the join of a dead worker after another
\* worker rendered pixels and exited
FaultAbortedRender ==
    /\ cpc = "Aborted"
    /\ sent = PixelCount
    /\ Faulted # {}
    /\ \E v \in Workers : wpc[v] = "Exited" /\ progress[v] > 0
    /\ output.lines = <<>>

\* ------------------------------------------------------------------------
\* C12: when the output file cannot be opened, the caller of render_scene
\* receives an error result: once render_scene has returned after a
\* Camera::render that returned the Err of the open, what it handed to its
\* caller is that error
\* ------------------------------------------------------------------------
OpenErrorSurfaced ==
    (spc = "Returned" /\ \E k \in 1..Len(renders) : renders[k].ret = "OpenErr")
        => call.ret = "Err"

\* ------------------------------------------------------------------------
\* C13: no camera whose look-from point equals its look-at point reaches
\* render: a call of Camera::render never computes the w basis vector from
\* the zero vector
\* ------------------------------------------------------------------------
NoDegenerateRender ==
    \A k \in 1..Len(renders) :
        /\ ~renders[k].w_basis.nan
        /\ renders[k].w_basis.dir # <<0, 0, 0>>

\* ------------------------------------------------------------------------
\* C14: the sample count of the camera is at least 1 in every state,
\* set_samples(0) aborts and leaves the camera as it was, and the vector
\* handed to average_samples in a render is never empty
\* ------------------------------------------------------------------------
SamplesPositive ==
    [][/\ scene_cam.samples >= 1
       /\ scene_cam'.samples >= 1
       /\ (call'.op = "set_samples" /\ call'.arg = 0) =>
             /\ spc' = "Panicked"
             /\ call'.ret = "panic"
             /\ scene_cam' = scene_cam
       /\ \A k \in 1..Len(renders') : renders'[k].sample_colors >= 1]_vars

\* set_samples(0) was called on a camera whose sample count had been set
\* to 1: the call panicked and the count is still 1
SetSamplesZeroAborted ==
    /\ spc = "Panicked"
    /\ call = Called("set_samples", 0, "panic")
    /\ scene_cam.samples = 1

\* ------------------------------------------------------------------------
\* C15: a movie of duration d at frame rate f renders ceil(d * f) frames
\* one after the other: the k-th call of Camera::render (k from 0) is made
\* with the frame counter at k, at scene time k / f, the counter advances
\* by one after it, and render_movie returns after exactly ceil(d * f)
\* calls
\* ------------------------------------------------------------------------
\* the least integer n with n >= d * f, d = duration.v
FramesOfMovie ==
    CHOOSE n \in 0..(MaxHalfSeconds * MaxRate) :
        /\ n * duration.v[2] >= duration.v[1] * frame_rate
        /\ (n - 1) * duration.v[2] < duration.v[1] * frame_rate

MovieFrames ==
    [][/\ (spc = "Movie" /\ renders' # renders) =>
             /\ Len(renders) = frame
             /\ frame < FramesOfMovie
             /\ renders' = Append(renders, Last(renders'))
             /\ renders'[frame + 1].frame = frame
             /\ renders'[frame + 1].current_time = Rat(frame, frame_rate)
             /\ spc' = "Movie" =>
                   /\ scene_cam'.frame = scene_cam.frame + 1
                   /\ frame' = frame + 1
       /\ (spc = "Movie" /\ spc' = "Returned") =>
             /\ Len(renders') = FramesOfMovie
             /\ scene_cam'.frame = FramesOfMovie]_vars

\* a movie of 1.5 seconds at 2 frames per second has returned after its
\* three frames, the second of which could not be written
MovieOfThreeFrames ==
    /\ spc = "Returned"
    /\ duration.some
    /\ duration.v = Rat(3, 2)
    /\ frame_rate = 2
    /\ Len(renders) = 3
    /\ renders[2].ret = "OpenErr"
    /\ renders[3].current_time = Rat(1, 1)

\* ------------------------------------------------------------------------
\* C17: for image width w and aspect ratio a the image height is
\* max(1, floor(w / a)); a render that returns Ok wrote the header P3,
\* "w h", 255 and w * h pixel lines; w = 400 and a = 16/9 give 400 225
\* ------------------------------------------------------------------------
HeaderAndLines ==
    /\ \E v \in {Viewport_new(Rat(16, 9), 400)} :
          v.image_width = 400 /\ v.image_height = 225
    /\ spc # "Off" =>
          \E w \in {scene_cam.viewport.image_width},
             h \in {scene_cam.viewport.image_height},
             a \in {scene_cam.aspect_ratio} :
                /\ h = Max2(1, (w * a[2]) \div a[1])
                /\ \A k \in 1..Len(renders) : renders[k].ret = "Ok" =>
                      /\ renders[k].header = <<"P3", w, h, 255>>
                      /\ renders[k].lines = w * h

\* an image of width 4 and aspect ratio 5 was rendered: floor(4 / 5) = 0,
\* the height is 1 and the file has 4 pixel lines
ClampedHeader ==
    /\ spc = "Returned"
    /\ scene_cam.aspect_ratio = Rat(5, 1)
    /\ \E k \in 1..Len(renders) :
          /\ renders[k].ret = "Ok"
          /\ renders[k].header = <<"P3", 4, 1, 255>>
          /\ renders[k].lines = 4

VendCollision ==
    [][\E c \in {Last(vended')} :
          c.alias \in DOMAIN id_vendor.id_map =>
             /\ ~c.ret.some
             /\ id_vendor' = id_vendor]_vars

\* vend_id("cam") returned None and the next vend_id got id 1
CamRefusedThenFirstId ==
    /\ Len(vended) >= 2
    /\ vended[1].alias = "cam"
    /\ ~vended[1].ret.some
    /\ vended[2].ret = [some |-> TRUE, id |-> 1]

\* ------------------------------------------------------------------------
\* C19: alias_lookup(a) returns the id that vend_id(a) returned, two
\* aliases never share an id, the ids vend_id returns are 1, 2, 3, ... in
\* the order of the calls, and id 0 belongs to "cam" alone
\* ------------------------------------------------------------------------
\* the calls of vend_id that returned Some, in order
Vended == SelectSeq(vended, LAMBDA c : c.ret.some)

VendorCoherent ==
    vpc = "On" =>
       /\ \A k \in 1..Len(Vended) :
             /\ Vended[k].ret.id = k
             /\ alias_lookup(id_vendor, Vended[k].alias).some
             /\ alias_lookup(id_vendor, Vended[k].alias).info.id = k
             /\ alias_lookup(id_vendor, Vended[k].alias).info.o_type
                   = Vended[k].o_type
       /\ \A a, b \in DOMAIN id_vendor.id_map :
             id_vendor.id_map[a].id = id_vendor.id_map[b].id => a = b
       /\ \A a \in DOMAIN id_vendor.id_map :
             id_vendor.id_map[a].id = 0 <=> a = "cam"
       /\ \A a \in Aliases \ DOMAIN id_vendor.id_map :
             ~alias_lookup(id_vendor, a).some

\* two aliases were vended with a refused call between them
TwoVendedOneRefused ==
    /\ Len(vended) = 3
    /\ vended[1].ret = [some |-> TRUE, id |-> 1]
    /\ ~vended[2].ret.some
    /\ vended[2].alias = vended[1].alias
    /\ vended[3].ret = [some |-> TRUE, id |-> 2]
    /\ alias_lookup(id_vendor, vended[3].alias).info.id = 2

\* ------------------------------------------------------------------------
\* C20: Aabb::hit returns false at the first axis, in the order X, Y, Z,
\* on which the narrowed interval is empty (max <= min), without looking
\* at the axes after it and whatever they would say, and returns true only
\* when the interval is non-empty after each of the three axes
\* ------------------------------------------------------------------------
\* ray_t after the narrowing on the first k axes
RECURSIVE NarrowedUpTo(_, _, _, _)
NarrowedUpTo(box, r, ray_t, k) ==
    IF k = 0 THEN ray_t
    ELSE AabbNarrow(box, r, NarrowedUpTo(box, r, ray_t, k - 1), AxisOrder[k])

\* box is the box tested first by the query on the BVH, the box of its
\* root; empty is the set of axes after which the narrowed interval is empty
AabbEarlyExit ==
    hpc = "done" =>
       \E box \in {new_wrapper(hlist).bbox} :
       \E res \in {AabbHitFrom(box, hray, hray_t, 1)},
          empty \in {{k \in 1..3 :
                        \E nt \in {NarrowedUpTo(box, hray, hray_t, k)} :
                           RLe(nt.max, nt.min)}} :
             /\ res.ok <=> empty = {}
             /\ res.ok => res.axes = 3
             /\ ~res.ok => res.axes \in empty /\ \A k \in empty : res.axes <= k

\* the box is rejected on X although the ray passes the Y and the Z slab
\* within the query interval
RejectedOnFirstAxis ==
    /\ hpc = "done"
    /\ \E box \in {new_wrapper(hlist).bbox} :
          /\ AabbHitFrom(box, hray, hray_t, 1) = [ok |-> FALSE, axes |-> 1]
          /\ \A n \in {"Y", "Z"} :
                \E nt \in {AabbNarrow(box, hray, hray_t, n)} : RLt(nt.min, nt.max)

\* ------------------------------------------------------------------------
\* C21: Aabb::longest_axis returns an axis whose interval size is the
\* greatest of the three, and among axes of equal greatest size it prefers
\* X, then Z, then Y
\* ------------------------------------------------------------------------
LongestAxisTiesXZY ==
    (hpc = "done" /\ new_wrapper(hlist).kind = "BVHWrapper") =>
       \E box \in {new_wrapper(hlist).bbox} :
       \E ax \in {longest_axis(box)},
          sx \in {size(box.x)}, sy \in {size(box.y)}, sz \in {size(box.z)} :
             /\ \A s \in {sx, sy, sz} : RLe(s, size(axis_interval(box, ax)))
             /\ ax = "Z" => RLt(sx, sz)
             /\ ax = "Y" => RLt(sx, sy) /\ RLt(sz, sy)

\* C21, as the code has it: Aabb::longest_axis returns an axis whose
\* interval size is the greatest of the three, and among axes of equal
\* greatest size it prefers Z, then Y, then X: X is returned only when its
\* size is strictly the greatest
LongestAxisTiesZYX ==
    (hpc = "done" /\ new_wrapper(hlist).kind = "BVHWrapper") =>
       \E box \in {new_wrapper(hlist).bbox} :
       \E ax \in {longest_axis(box)},
          sx \in {size(box.x)}, sy \in {size(box.y)}, sz \in {size(box.z)} :
             /\ \A s \in {sx, sy, sz} : RLe(s, size(axis_interval(box, ax)))
             /\ ax = "Y" => RLt(sz, sy)
             /\ ax = "X" => RLt(sy, sx) /\ RLt(sz, sx)

\* the root box of a BVH has equal x and y sizes greater than its z size,
\* and Y is its longest axis
TieOfXAndYGivesY ==
    /\ hpc = "done"
    /\ new_wrapper(hlist).kind = "BVHWrapper"
    /\ \E box \in {new_wrapper(hlist).bbox} :
          /\ size(box.x) = size(box.y)
          /\ RLt(size(box.z), size(box.x))
          /\ longest_axis(box) = "Y"

\* ------------------------------------------------------------------------
\* Color, textures and Lambertian::scatter
\* ------------------------------------------------------------------------
\* f64::clamp
clamp(x, lo, hi) == IF RLt(x, lo) THEN lo ELSE IF RLt(hi, x) THEN hi ELSE x

\* f64::abs
fabs(x) == IF x[1] < 0 THEN <<-x[1], x[2]>> ELSE x

RMin2(a, b) == IF RLt(a, b) THEN a ELSE b

RMax2(a, b) == IF RLt(b, a) THEN a ELSE b

\* min3 + max3
hilo(a, b, c) ==
    RSub(RMax2(RMax2(a, b), c), RSub(FromInt(0), RMin2(RMin2(a, b), c)))

\* impl Neg for Color: a Color is <<r, g, b>>
Color_neg(c) ==
    [i \in 1..3 |-> fabs(RSub(hilo(c[1], c[2], c[3]), c[i]))]

\* impl Mul<Color> for f64
f64_mul_Color(self, rhs) ==
    LET mul_val == IF RLt(self, FromInt(0)) THEN Color_neg(rhs) ELSE rhs
        pos_s == fabs(self)
    IN [i \in 1..3 |-> clamp(RMul(pos_s, mul_val[i]), FromInt(0), FromInt(1))]

\* impl Div<f64> for Color
Color_div_f64(self, rhs) ==
    LET inv_self == IF RLt(rhs, FromInt(0)) THEN Color_neg(self) ELSE self
    IN f64_mul_Color(RDiv(FromInt(1), fabs(rhs)), inv_self)

SolidColor(albedo) == [kind |-> "SolidColor", albedo |-> albedo]

\* CheckerTexture::new_from_color, for a scale whose inverse is an integer
CheckerTexture(inv_scale, c1, c2) ==
    [kind |-> "CheckerTexture", inv_scale |-> inv_scale,
     even |-> SolidColor(c1), odd |-> SolidColor(c2)]

\* Textures::value: the points of the model have integer coordinates, so
\* floor leaves inv_scale * p.x() as it is
Textures_value(tex, u, v, p) ==
    IF tex.kind = "SolidColor" THEN tex.albedo
    ELSE IF (tex.inv_scale * (p[1] + p[2] + p[3])) % 2 = 0
         THEN tex.even.albedo
         ELSE tex.odd.albedo

\* Vec3::near_zero on a vector of integers
near_zero(v) == v = <<0, 0, 0>>

\* Lambertian::scatter; random_unit is what Vec3::random_unit_vector
\* returned and draw what rng.random::<f64>() returned
Lambertian_scatter(self, r_in_time, rec, random_unit, draw) ==
    LET sum == VAdd(rec.normal, random_unit)
        scatter_dir == IF near_zero(sum) THEN rec.normal ELSE sum
        ray == Ray(rec.position, scatter_dir, r_in_time)
    IN [attenuation |->
            Color_div_f64(Textures_value(self.tex, rec.u_texture,
                                         rec.v_texture, rec.position),
                          self.scatter_prob),
        ret |-> IF RLe(draw, self.scatter_prob)
                THEN [some |-> TRUE, ray |-> ray]
                ELSE [some |-> FALSE, ray |-> <<>>]]

\* the channel values of the colors of the model, all accepted by Color::new
Channels == {FromInt(0), Rat(1, 2), FromInt(1)}

Colors == {<<r, g, b>> : r \in Channels, g \in Channels, b \in Channels}

MatTextures ==
    {SolidColor(c) : c \in Colors}
      \cup {CheckerTexture(1, <<FromInt(1), Rat(1, 2), FromInt(0)>>,
                           <<Rat(1, 2), Rat(1, 2), Rat(1, 2)>>)}

ScatterProbs == {Rat(1, 4), Rat(1, 2), FromInt(1)}

RandomUnits == {<<1, 0, 0>>, <<0, -1, 0>>, <<0, 0, 1>>, <<0, 0, -1>>}

RandomDraws == {FromInt(0), Rat(1, 2), Rat(3, 4)}

\* a ray of time 0 or 1 has hit a Lambertian surface of normal (0, 0, 1)
InitMaterial ==
    /\ RenderOff
    /\ BenchOff
    /\ SceneOff
    /\ VendorOff
    /\ ListOff
    /\ ElemOff
    /\ mpc = "Hit"
    /\ \E tex \in MatTextures, prob \in ScatterProbs :
          lam = [tex |-> tex, scatter_prob |-> prob]
    /\ \E pos \in {<<0, 0, 0>>, <<1, 0, 0>>}, tm \in {0, 1} :
          mrec = [position |-> pos, normal |-> <<0, 0, 1>>,
                  u_texture |-> FromInt(0), v_texture |-> FromInt(0),
                  time |-> tm]
    /\ attenuation = <<FromInt(0), FromInt(0), FromInt(0)>>
    /\ scattered = [some |-> FALSE, ray |-> <<>>]

Scatter ==
    /\ mpc = "Hit"
    /\ mpc' = "Scattered"
    /\ \E random_unit \in RandomUnits, draw \in RandomDraws :
       \E out \in {Lambertian_scatter(lam, mrec.time, mrec, random_unit, draw)} :
          /\ attenuation' = out.attenuation
          /\ scattered' = out.ret
    /\ UNCHANGED <<lam, mrec>>
    /\ UNCHANGED <<benchVars, renderVars, sceneVars, vendorVars, listVars, elemVars>>

NextMaterial == Scatter

SpecMaterial == InitMaterial /\ [][NextMaterial]_vars

\* ------------------------------------------------------------------------
\* C22: Lambertian::scatter sets each channel of the attenuation to the
\* texture value at the hit divided by the scatter probability, for texture
\* values in [0, 1] and scatter probabilities in (0, 1]
\* ------------------------------------------------------------------------
AttenuationIsValueOverProb ==
    (/\ mpc = "Scattered"
     /\ RLt(FromInt(0), lam.scatter_prob)
     /\ RLe(lam.scatter_prob, FromInt(1))) =>
       \A i \in 1..3 :
          attenuation[i] =
             RDiv(Textures_value(lam.tex, mrec.u_texture, mrec.v_texture,
                                 mrec.position)[i],
                  lam.scatter_prob)

\* ------------------------------------------------------------------------
\* C23: when BVHWrapper::hit tests a ray of time t against the box of a
\* node, the box encloses the positions at time t of the primitives below
\* the node, so a primitive moved by its timeline that the list scan finds
\* at time t is found through the BVH as well
\* ------------------------------------------------------------------------
BoxesFollowRayTime ==
    (hpc = "done" /\ new_wrapper(hlist).kind = "BVHWrapper") =>
       \E root \in {new_wrapper(hlist)} :
          /\ \A i \in 1..Len(hlist.objs) :
                (hlist.objs[i].kind = "Triangle" /\ ~hlist.objs[i].hide) =>
                   new_from_boxes(root.bbox,
                       Triangle_update_bb(hlist.objs[i], hray.tm).bbox)
                     = root.bbox
          /\ (list_out.rec.hit /\ list_out.rec.mat = TriMoving.mat) =>
                bvh_out.rec.hit

\* ------------------------------------------------------------------------
\* HitList driven through new, add, clear and update_bb
\* ------------------------------------------------------------------------
\* HitList::clear
HitList_clear(l) == [l EXCEPT !.objs = <<>>]

\* HitList::new on a vector of at most two objects
InitList ==
    /\ RenderOff
    /\ BenchOff
    /\ SceneOff
    /\ VendorOff
    /\ MaterialOff
    /\ ElemOff
    /\ lpc = "On"
    /\ \E objs \in UNION {[1..n -> Candidates] : n \in 0..2} :
          lst = HitList_new(objs)

ListAdd(obj) ==
    /\ lpc = "On"
    /\ Len(lst.objs) < MaxObjs
    /\ lst' = HitList_add(lst, obj)
    /\ UNCHANGED lpc
    /\ UNCHANGED <<benchVars, renderVars, sceneVars, vendorVars, materialVars, elemVars>>

ListClear ==
    /\ lpc = "On"
    /\ lst' = HitList_clear(lst)
    /\ UNCHANGED lpc
    /\ UNCHANGED <<benchVars, renderVars, sceneVars, vendorVars, materialVars, elemVars>>

ListUpdateBb(time) ==
    /\ lpc = "On"
    /\ lst' = Hittables_update_bb(lst, time)
    /\ UNCHANGED lpc
    /\ UNCHANGED <<benchVars, renderVars, sceneVars, vendorVars, materialVars, elemVars>>

NextList ==
    \/ \E obj \in Candidates : ListAdd(obj)
    \/ ListClear
    \/ \E time \in Times : ListUpdateBb(time)

SpecList == InitList /\ [][NextList]_vars

\* ------------------------------------------------------------------------
\* C24: after any sequence of HitList::new, add, clear and update_bb the
\* cached box of the list is the union of the boxes of its current
\* children, the empty box when it has none
\* ------------------------------------------------------------------------
CachedBoxIsUnion ==
    lpc = "On" => lst.bbox = RangeBox(lst.objs)

\* ------------------------------------------------------------------------
\* The setters of the camera's field of view and focus
\* ------------------------------------------------------------------------
\* Camera::set_vfov
set_vfov(vfov_degrees) ==
    /\ spc = "Built"
    /\ scene_cam' = fix_viewport([scene_cam EXCEPT
                                    !.vfov = as_radians(vfov_degrees)])
    /\ call' = Called("set_vfov", vfov_degrees, "()")
    /\ UNCHANGED <<spc, duration, frame_rate, frames, frame, renders>>
    /\ UNCHANGED <<renderVars, benchVars, vendorVars, labVars>>

\* x.tan().atan(): the angle of (-pi/2, pi/2] with the tangent of x
tan_atan(x) ==
    IF RLe(Rat(-1, 2), x) /\ RLe(x, Rat(1, 2)) THEN x
    ELSE RSub(x, ceil(RSub(x, Rat(1, 2))))

\* Camera::set_hfov, which ends in set_vfov
set_hfov(hfov_degrees) ==
    /\ spc = "Built"
    /\ \E hfov \in {as_radians(hfov_degrees)} :
       \E vfov \in {as_degrees(RMul(
                      tan_atan(RDiv(hfov, RMul(FromInt(2), scene_cam.aspect_ratio))),
                      FromInt(2)))} :
          scene_cam' = fix_viewport([scene_cam EXCEPT !.vfov = as_radians(vfov)])
    /\ call' = Called("set_hfov", hfov_degrees, "()")
    /\ UNCHANGED <<spc, duration, frame_rate, frames, frame, renders>>
    /\ UNCHANGED <<renderVars, benchVars, vendorVars, labVars>>

\* Camera::set_defocus_angle
set_defocus_angle(da_degree) ==
    /\ spc = "Built"
    /\ scene_cam' = [scene_cam EXCEPT !.defocus_angle = as_radians(da_degree)]
    /\ call' = Called("set_defocus_angle", da_degree, "()")
    /\ UNCHANGED <<spc, duration, frame_rate, frames, frame, renders>>
    /\ UNCHANGED <<renderVars, benchVars, vendorVars, labVars>>

\* Camera::set_focus_dist
set_focus_dist(fd) ==
    /\ spc = "Built"
    /\ scene_cam' = fix_viewport([scene_cam EXCEPT !.focus_dist = fd])
    /\ call' = Called("set_focus_dist", fd, "()")
    /\ UNCHANGED <<spc, duration, frame_rate, frames, frame, renders>>
    /\ UNCHANGED <<renderVars, benchVars, vendorVars, labVars>>

FovDegrees == {FromInt(60), FromInt(90), FromInt(120)}

FocusDists == {FromInt(1), FromInt(10), Rat(7, 2)}

DefocusDegrees == {FromInt(0), FromInt(2)}

\* Camera::new has returned
InitCamera ==
    /\ RenderOff
    /\ BenchOff
    /\ VendorOff
    /\ LabOff
    /\ spc = "Built"
    /\ duration = [some |-> FALSE, v |-> NaN]
    /\ frame_rate \in 1..MaxRate
    /\ \E a \in AspectRatios, iw \in 1..MaxWidth :
          scene_cam = Camera_new(a, iw, frame_rate)
    /\ frames = 0
    /\ frame = 0
    /\ renders = <<>>
    /\ call = Called("new", 0, "()")

NextCamera ==
    \/ \E loc \in CamPoints : look_from(loc) \/ look_at(loc)
    \/ \E d \in FovDegrees : set_vfov(d)
    \/ \E d \in FovDegrees : set_hfov(d)
    \/ \E fd \in FocusDists : set_focus_dist(fd)
    \/ \E d \in DefocusDegrees : set_defocus_angle(d)

SpecCamera == InitCamera /\ [][NextCamera]_vars

\* ------------------------------------------------------------------------
\* C25: in every camera state, right after Camera::new and after any
\* sequence of the setters, the stored viewport height is
\* 2 * tan(vfov / 2) * focus_dist for the current vfov and focus_dist, and the
\* stored viewport width is that height times image_width / image_height
\* ------------------------------------------------------------------------
ViewportFollowsFovAndFocus ==
    spc = "Built" =>
       /\ scene_cam.viewport.viewport_height
            = TanTimes(RMul(FromInt(2), scene_cam.focus_dist),
                       RDiv(scene_cam.vfov, FromInt(2)))
       /\ scene_cam.viewport.viewport_width
            = TanTimes(RMul(RMul(FromInt(2), scene_cam.focus_dist),
                            pixel_ratio(scene_cam.viewport)),
                       RDiv(scene_cam.vfov, FromInt(2)))

\* ------------------------------------------------------------------------
\* Scene: elements, visibility and the animator
\* ------------------------------------------------------------------------
\* largest number of calls made on a scene
MaxSceneOps == 4

\* a set_visibility that does not compare ids
set_visibility_all(els, v, alias, hide) ==
    IF ~alias_lookup(v, alias).some THEN els
    ELSE ListOf([i \in 1..Len(els.objs) |->
                   IF els.objs[i].kind = "Triangle"
                   THEN [els.objs[i] EXCEPT !.hide = hide]
                   ELSE els.objs[i]])

\* Scene::set_visibility: the elements after the call
set_visibility(els, v, alias, hide) ==
    IF ~alias_lookup(v, alias).some THEN els
    ELSE ListOf([i \in 1..Len(els.objs) |->
                   IF /\ els.objs[i].kind = "Triangle"
                      /\ els.objs[i].id = alias_lookup(v, alias).info.id
                   THEN [els.objs[i] EXCEPT !.hide = hide]
                   ELSE els.objs[i]])

\* a transform of TransformTimeline (scale_x, translate_x): the keyframe is
\* pushed onto the timeline
timeline_push(tl, ttype, x, keyframe) ==
    [tl EXCEPT !.transforms =
        Append(@, [ttype |-> ttype, x |-> x, keyframe |-> keyframe])]

\* the body shared by the animator operations: check_and_get_alias, then
\* the loop that rebuilds the element list; the timeline asserts
\* keyframe >= 0 when a transform is pushed
animate(els, v, ttype, invalid_types, x, keyframe, alias) ==
    LET look == alias_lookup(v, alias)
        own == {i \in 1..Len(els.objs) :
                  els.objs[i].kind = "Triangle" /\ els.objs[i].id = look.info.id}
    IN  IF \/ ~look.some
           \/ look.info.o_type \in invalid_types
           \/ (keyframe < 0 /\ own # {})
        THEN [panic |-> TRUE, elements |-> els]
        ELSE [panic |-> FALSE,
              elements |->
                ListOf([i \in 1..Len(els.objs) |->
                   IF i \in own
                   THEN [els.objs[i] EXCEPT
                           !.a_timeline = timeline_push(@, ttype, x, keyframe),
                           !.b_timeline = timeline_push(@, ttype, x, keyframe),
                           !.c_timeline = timeline_push(@, ttype, x, keyframe)]
                   ELSE els.objs[i]])]

SceneCall(op, alias, ret) == [op |-> op, alias |-> alias, ret |-> ret]

\* what add_element is given: triangles, a BVH and a list of one triangle
SceneCandidates == {TriNear, TriFlat, Nested, ListOf(<<TriFar>>)}

\* Scene::new_image has returned
InitElems ==
    /\ RenderOff
    /\ BenchOff
    /\ SceneOff
    /\ VendorOff
    /\ MaterialOff
    /\ ListOff
    /\ epc = "On"
    /\ elements = HitList_new(<<>>)
    /\ evendor = IdVendor_new
    /\ hidden = {}
    /\ ecall = SceneCall("new_image", "", "()")
    /\ eops = 0

\* the candidates not yet in the scene: every material is used by one
\* element, so that the material of a hit names the element
fresh_candidates ==
    {c \in SceneCandidates :
        \A i \in 1..Len(elements.objs) :
           IF elements.objs[i].kind = "Triangle"
           THEN c.kind # "Triangle" \/ c.mat # elements.objs[i].mat
           ELSE c # elements.objs[i]}

\* Scene::add_element, given a candidate not yet in the scene
add_element(element, alias) ==
    /\ epc = "On"
    /\ element \in fresh_candidates
    /\ eops < MaxSceneOps
    /\ eops' = eops + 1
    /\ IF element.kind # "Triangle"
       THEN /\ elements' = HitList_add(elements, element)
            /\ ecall' = SceneCall("add_element", alias, "()")
            /\ UNCHANGED <<epc, evendor>>
       ELSE \E r \in {vend_id(evendor, alias, "Triangle")} :
              IF r.ret.some
              THEN /\ elements' = HitList_add(elements,
                                      [element EXCEPT !.id = r.ret.id])
                   /\ evendor' = r.vendor
                   /\ ecall' = SceneCall("add_element", alias, "()")
                   /\ UNCHANGED epc
              ELSE /\ epc' = "Panicked"
                   /\ ecall' = SceneCall("add_element", alias, "panic")
                   /\ UNCHANGED <<elements, evendor>>
    /\ UNCHANGED hidden
    /\ UNCHANGED <<benchVars, renderVars, sceneVars, vendorVars, materialVars, listVars>>

\* Scene::hide_element
hide_element(alias) ==
    /\ epc = "On"
    /\ eops < MaxSceneOps
    /\ eops' = eops + 1
    /\ elements' = set_visibility(elements, evendor, alias, TRUE)
    /\ hidden' = IF alias_lookup(evendor, alias).some
                 THEN hidden \cup {alias} ELSE hidden
    /\ ecall' = SceneCall("hide_element", alias, "()")
    /\ UNCHANGED <<epc, evendor>>
    /\ UNCHANGED <<benchVars, renderVars, sceneVars, vendorVars, materialVars, listVars>>

\* Scene::show_element
show_element(alias) ==
    /\ epc = "On"
    /\ eops < MaxSceneOps
    /\ eops' = eops + 1
    /\ elements' = set_visibility(elements, evendor, alias, FALSE)
    /\ hidden' = hidden \ {alias}
    /\ ecall' = SceneCall("show_element", alias, "()")
    /\ UNCHANGED <<epc, evendor>>
    /\ UNCHANGED <<benchVars, renderVars, sceneVars, vendorVars, materialVars, listVars>>

\* Scene::scale_x, which is not valid on spheres
scale_x(x, keyframe, alias) ==
    /\ epc = "On"
    /\ eops < MaxSceneOps
    /\ eops' = eops + 1
    /\ \E out \in {animate(elements, evendor, "ScaleX", {"Sphere"},
                           x, keyframe, alias)} :
          /\ elements' = out.elements
          /\ epc' = IF out.panic THEN "Panicked" ELSE epc
          /\ ecall' = SceneCall("scale_x", alias,
                                IF out.panic THEN "panic" ELSE "()")
    /\ UNCHANGED <<evendor, hidden>>
    /\ UNCHANGED <<benchVars, renderVars, sceneVars, vendorVars, materialVars, listVars>>

\* Scene::translate_x, which is valid on every type
translate_x(x, keyframe, alias) ==
    /\ epc = "On"
    /\ eops < MaxSceneOps
    /\ eops' = eops + 1
    /\ \E out \in {animate(elements, evendor, "TranslateX", {},
                           x, keyframe, alias)} :
          /\ elements' = out.elements
          /\ epc' = IF out.panic THEN "Panicked" ELSE epc
          /\ ecall' = SceneCall("translate_x", alias,
                                IF out.panic THEN "panic" ELSE "()")
    /\ UNCHANGED <<evendor, hidden>>
    /\ UNCHANGED <<benchVars, renderVars, sceneVars, vendorVars, materialVars, listVars>>

NextElems ==
    \/ \E e \in SceneCandidates, a \in Aliases : add_element(e, a)
    \/ \E a \in Aliases : hide_element(a)
    \/ \E a \in Aliases : show_element(a)
    \/ \E k \in {-1, 1}, a \in Aliases : scale_x(2, k, a)
    \/ \E k \in {-1, 1}, a \in Aliases : translate_x(2, k, a)

SpecElems == InitElems /\ [][NextElems]_vars

\* the material of the element a ray of the render hits in the BVH that
\* Scene::render_image builds from the elements, 0 when it hits none
render_hit(els, r) ==
    Hittables_hit(new_wrapper(els), r, Interval(Rat(1, 1000), PosInf)).rec.mat

\* the top-level elements that carry the id of an alias
elements_of(els, v, alias) ==
    {i \in 1..Len(els.objs) :
        /\ els.objs[i].kind = "Triangle"
        /\ alias_lookup(v, alias).some
        /\ els.objs[i].id = alias_lookup(v, alias).info.id}

\* ------------------------------------------------------------------------
\* C26: after hide_element(a) and until a later show_element(a) no ray of a
\* render hits an element that carries the id of the alias a, a ray that
\* hit an element of another id before hide_element(a) hits it after, and
\* show_element(a) makes the elements of a part of the render again
\* ------------------------------------------------------------------------
HiddenUntilShown ==
    [][epc' = "On" =>
        /\ \A a \in hidden', r \in BenchRays :
              \A i \in elements_of(elements', evendor', a) :
                 render_hit(elements', r) # elements'.objs[i].mat
        /\ (ecall'.op = "hide_element" /\ eops' = eops + 1) =>
              \A r \in BenchRays :
                 \E before \in {render_hit(elements, r)} :
                    (/\ before # 0
                     /\ \A i \in elements_of(elements, evendor, ecall'.alias) :
                           before # elements.objs[i].mat)
                       => render_hit(elements', r) = before
        /\ (ecall'.op = "show_element" /\ eops' = eops + 1) =>
              \A i \in elements_of(elements', evendor', ecall'.alias) :
                 /\ ~elements'.objs[i].hide
                 /\ \E k \in 1..Len(visible_objects(elements'.objs)) :
                       visible_objects(elements'.objs)[k] = elements'.objs[i]
    ]_vars

\* ------------------------------------------------------------------------
\* C30: set_visibility (hide_element, show_element) and the animator
\* operations keep the number and the order of the elements, change only
\* the visibility and the timelines of the elements that carry the id of
\* the given alias, leave every other element, nested lists and BVHs
\* included, as it was, and do not change the id vendor
\* ------------------------------------------------------------------------
OnlyElementsOfTheAliasChange ==
    [][(/\ ecall'.op \in {"hide_element", "show_element", "scale_x", "translate_x"}
        /\ eops' = eops + 1) =>
        /\ Len(elements'.objs) = Len(elements.objs)
        /\ \A i \in 1..Len(elements.objs) :
              IF i \in elements_of(elements, evendor, ecall'.alias)
              THEN /\ elements'.objs[i].kind = "Triangle"
                   /\ elements'.objs[i].id = elements.objs[i].id
                   /\ elements'.objs[i].mat = elements.objs[i].mat
                   /\ elements'.objs[i].bbox = elements.objs[i].bbox
              ELSE elements'.objs[i] = elements.objs[i]
        /\ evendor' = evendor
    ]_vars

\* translate_x has pushed a keyframe onto the timelines of one triangle of
\* a scene that also holds another triangle and a nested list or BVH
TranslatedOneOfThree ==
    /\ epc = "On"
    /\ ecall.op = "translate_x"
    /\ ecall.ret = "()"
    /\ \E i, j, k \in 1..Len(elements.objs) :
          /\ elements.objs[i].kind = "Triangle"
          /\ elements.objs[i].id = alias_lookup(evendor, ecall.alias).info.id
          /\ elements.objs[i].a_timeline.transforms # <<>>
          /\ elements.objs[j].kind = "Triangle"
          /\ elements.objs[j].a_timeline.transforms = <<>>
          /\ elements.objs[k].kind # "Triangle"

\* ------------------------------------------------------------------------
\* C27: with thread_count = 0 no worker and no receiver exist after setup,
\* no job is ever queued, the render never gets past the dispatch and
\* writes no pixel line, and the first send ends it: a render that has
\* reached the dispatch is eventually aborted
\* ------------------------------------------------------------------------
ZeroThreadsAbort ==
    /\ [](thread_count = 0 /\ cpc # "Off" =>
            /\ \A w \in Workers : wpc[w] = "Unborn"
            /\ cpc = "Dispatching" => ~receiver_alive
            /\ cpc \in {"Setup", "Failed", "Dispatching", "Aborted"}
            /\ sent = 0
            /\ chan = <<>>
            /\ results = <<>>
            /\ output.lines = <<>>)
    /\ (thread_count = 0 /\ cpc = "Dispatching") ~> (cpc = "Aborted")

\* a render with no thread was aborted after the header was written
ZeroThreadsAborted ==
    /\ thread_count = 0
    /\ cpc = "Aborted"
    /\ sender = FALSE
    /\ output.header = <<ImageWidth, ImageHeight, 255>>
    /\ output.lines = <<>>

\* ------------------------------------------------------------------------
\* Intersection test bench with rays parallel to an axis plane
\* ------------------------------------------------------------------------
\* rays with a zero z component, from a point of the plane z = 2 and from
\* a point off it, next to rays with three non-zero components
PlaneRays ==
    {Ray(o, d, tm) : o \in {<<0, 0, 2>>, <<0, 0, 4>>},
                     d \in {<<1, 1, 0>>, <<1, 1, -1>>}, tm \in Times}

\* one scene, one ray and one query interval
InitFlat ==
    /\ hpc = "start"
    /\ \E sc \in Scenes : hlist = ListOf(sc)
    /\ hray \in PlaneRays
    /\ hray_t \in BenchIntervals
    /\ list_out = NoResult
    /\ bvh_out = NoResult
    /\ RenderOff
    /\ SceneOff
    /\ VendorOff
    /\ LabOff

SpecFlat == InitFlat /\ [][NextHit]_vars

\* the axes on which a box has zero extent
flat_axes(box) ==
    {n \in {"X", "Y", "Z"} : axis_interval(box, n).min = axis_interval(box, n).max}

\* the ray runs inside the plane of a box that is flat on axis n: its
\* direction has a zero component on n and its origin lies in the plane
in_plane(box, r, n) ==
    /\ r.direction[AxisIndex(n)] = 0
    /\ FromInt(r.origin[AxisIndex(n)]) = axis_interval(box, n).min

\* ------------------------------------------------------------------------
\* C29: Aabb::hit accepts a ray only when the interval left after the
\* narrowing on all three axes has max > min; a box with zero extent on
\* some axis is rejected for every ray, and a BVH whose root box is such a
\* box returns no hit for every ray
\* ------------------------------------------------------------------------
FlatBoxRejectsEveryRay ==
    hpc = "done" =>
       \E box \in {new_wrapper(hlist).bbox} :
          /\ Aabb_hit(box, hray, hray_t) =>
                \E nt \in {NarrowedUpTo(box, hray, hray_t, 3)} : RLt(nt.min, nt.max)
          /\ flat_axes(box) # {} => ~Aabb_hit(box, hray, hray_t)
          /\ (flat_axes(box) # {} /\ new_wrapper(hlist).kind = "BVHWrapper")
                => ~bvh_out.rec.hit

\* C29 as the code has it: the flat box is rejected for every ray that
\* does not run inside the plane of the box; for a ray inside the plane
\* the narrowing on the flat axis computes NaN bounds and leaves the
\* interval as it was
FlatBoxRejectsRaysOffItsPlane ==
    hpc = "done" =>
       \E box \in {new_wrapper(hlist).bbox} :
          /\ Aabb_hit(box, hray, hray_t) =>
                \E nt \in {NarrowedUpTo(box, hray, hray_t, 3)} : RLt(nt.min, nt.max)
          /\ \A n \in flat_axes(box) :
                \/ ~Aabb_hit(box, hray, hray_t)
                \/ in_plane(box, hray, n)
          /\ (flat_axes(box) # {} /\ new_wrapper(hlist).kind = "BVHWrapper")
                => ~bvh_out.rec.hit

\* the linear scan finds a triangle that the BVH, whose root box is flat,
\* does not
FlatBoxHidesItsTriangle ==
    /\ hpc = "done"
    /\ new_wrapper(hlist).kind = "BVHWrapper"
    /\ flat_axes(new_wrapper(hlist).bbox) # {}
    /\ ~Aabb_hit(new_wrapper(hlist).bbox, hray, hray_t)
    /\ list_out.rec.hit
    /\ ~bvh_out.rec.hit

\* ------------------------------------------------------------------------
\* Consecutive renders of one camera: the frames of Scene::render_movie
\* ------------------------------------------------------------------------
\* the frame loop of render_movie calls render_image again after a render
\* that returned Ok or Err (render_image only reports the Err): the file
\* of the next frame, a new channel and new workers, and the result map of
\* the camera as the last render left it
render_next_frame ==
    /\ cpc \in {"Done", "Failed"}
    /\ cpc' = "Setup"
    /\ sender' = FALSE
    /\ chan' = <<>>
    /\ sent' = 0
    /\ joined' = 0
    /\ written' = 0
    /\ output' = [header |-> <<>>, lines |-> <<>>]
    /\ lock' = 0
    /\ wpc' = [w \in Workers |-> "Unborn"]
    /\ winfo' = [w \in Workers |-> NoInfo]
    /\ wworld' = [w \in Workers |-> NoWorld]
    /\ progress' = [w \in Workers |-> 0]
    /\ received' = [p \in Pixels |-> 0]
    /\ inserts' = [p \in Pixels |-> <<>>]
    /\ out_of_order' = FALSE
    /\ closed_queued' = FALSE
    /\ stale' = [found |-> DOMAIN results, kept |-> DOMAIN results]
    /\ UNCHANGED <<thread_count, deterministic, world, skybox, results>>
    /\ UNCHANGED <<benchVars, apiVars>>

NextMovie ==
    \/ Next
    \/ render_next_frame

SpecMovie == Init /\ [][NextMovie]_vars

\* ------------------------------------------------------------------------
\* C28: across the consecutive renders of one camera, also after a render
\* that returned an I/O error while serializing, a pixel line written for
\* a frame is the color that a worker of this render inserted last under
\* the pixel's key; an entry that was in the map when the render was
\* called is never written
\* ------------------------------------------------------------------------
FrameWritesItsOwnEntries ==
    [][(cpc = "Serializing" /\ written' = written + 1) =>
          \E key \in {drain_key(written)} :
             /\ key \notin stale.kept
             /\ inserts[key] # <<>>
             /\ output'.lines = Append(output.lines, Last(inserts[key]))
    ]_vars

\* a frame was written in full by a render that found entries of the
\* render before it in the map
FrameWrittenOverLeftovers ==
    /\ cpc = "Done"
    /\ stale.found # {}
    /\ stale.kept = {}
    /\ Len(output.lines) = PixelCount

====
